---- MODULE Spec2Model ----
(***************************************************************************)
(* Model of the tunnel server (NadeemAfana/tunnel): the SSH session        *)
(* manager (main.go), the forward handler and tunnel registry              *)
(* (remoteForward.go) and their helpers (utils.go, ssh.go).                *)
(*                                                                         *)
(* The forward and cancel handlers are those of the repository's current   *)
(* remoteForward.go (tunnel names, type=http|https|tcp); the teardown of   *)
(* main.go reads the connection's name through the older getter            *)
(* GetSubDomain, which is the same field.                                  *)
(*                                                                         *)
(* Strings the code concatenates or inspects byte by byte (registry keys,  *)
(* tunnel names, ports in decimal) are sequences of one-character strings. *)
(* Strings the code only compares for equality (client ids, session ids)   *)
(* are atomic.                                                             *)
(*                                                                         *)
(* Each goroutine of a connection has a program counter: mainPc (channel   *)
(* loop and deferred teardown), scPc (session channel handler), gPc        *)
(* (global requests: forward and cancel handlers), accPc (acceptor of a    *)
(* TCP listener).  The specifications at the end differ only in which      *)
(* clients connect and what they ask for.                                  *)
(***************************************************************************)
EXTENDS Integers, Sequences, FiniteSets, TLC

\* ------------------------------------------------------------------------
\* Program constants
\* ------------------------------------------------------------------------
httpBindPort == 80
clientKeepaliveMaxCount == 2
tunnelNameLength == 4
firstScanPort == 1000

\* ------------------------------------------------------------------------
\* Bounds of the model
\* ------------------------------------------------------------------------
\* The TCP port space is scaled down: the highest valid port (65535 in the
\* program) is firstScanPort + PortSpan, and the scan of the forward handler
\* runs up to one past it (1<<16 = 65535 + 1 in the program).
PortSpan == 1
MaxPort == firstScanPort + PortSpan
lastScanPort == MaxPort + 1

\* Number of channel-open requests a client sends on one connection.
MaxChannelOpens == 3

\* Number of requests a client sends on its session channel.
MaxChannelRequests == 3

\* Number of keepalive requests the keepalive goroutine sends.
MaxTicks == 5

Sessions == {"s1", "s2", "s3"}
NoSession == "none"

\* ------------------------------------------------------------------------
\* Strings
\* ------------------------------------------------------------------------
DigitChars == <<"0", "1", "2", "3", "4", "5", "6", "7", "8", "9">>
LowerChars == <<"a", "b", "c", "d", "e", "f", "g", "h", "i", "j", "k", "l", "m",
                "n", "o", "p", "q", "r", "s", "t", "u", "v", "w", "x", "y", "z">>
UpperChars == <<"A", "B", "C", "D", "E", "F", "G", "H", "I", "J", "K", "L", "M",
                "N", "O", "P", "Q", "R", "S", "T", "U", "V", "W", "X", "Y", "Z">>

Range(f) == {f[i] : i \in DOMAIN f}

IndexIn(c, seq) == CHOOSE i \in DOMAIN seq : seq[i] = c

\* strings.ToLower on one byte
ToLowerChar(c) == IF c \in Range(UpperChars) THEN LowerChars[IndexIn(c, UpperChars)] ELSE c

ToLower(s) == [i \in DOMAIN s |-> ToLowerChar(s[i])]

RECURSIVE Itoa(_)
\* strconv.Itoa for a non-negative integer
Itoa(n) == IF n < 10 THEN <<DigitChars[n + 1]>>
           ELSE Itoa(n \div 10) \o <<DigitChars[(n % 10) + 1]>>

\* net.JoinHostPort: host:port, the host in brackets when it contains a colon
JoinHostPort(host, port) ==
    IF \E i \in DOMAIN host : host[i] \in {":", "%"}
    THEN <<"[">> \o host \o <<"]", ":">> \o port
    ELSE host \o <<":">> \o port

NameCharOk(c) == c \in Range(LowerChars) \/ c \in Range(DigitChars) \/ c = "-"

\* utils.go tunnelNameValid
tunnelNameValid(tunnelName) ==
    LET n == Len(tunnelName)
        t == ToLower(tunnelName)
    IN  /\ n < 50
        /\ n # 0
        /\ t[1] # "-"
        /\ t[n] # "-"
        /\ \A i \in 1..n :
              /\ NameCharOk(t[i])
              /\ ~(t[i] = "-" /\ i + 1 <= n /\ t[i + 1] = "-")

\* utils.go init: charMap maps 0..9 to '0'..'9' and 10..35 to 'a'..'z'
charMap == [i \in 0..35 |-> IF i <= 9 THEN DigitChars[i + 1] ELSE LowerChars[i - 9]]

\* utils.go generateRandomTunnelName, for the random bytes read
generateRandomTunnelName(randomBytes) ==
    [i \in 1..tunnelNameLength |-> charMap[randomBytes[i] % 36]]


\* ------------------------------------------------------------------------
\* Inputs of the session and registry model
\* ------------------------------------------------------------------------
BindAddrs == {<<"h">>}

\* Tunnel names a client asks for in its exec command (already lower-cased by
\* the forward handler's parsing): a valid one and an invalid one.
NameABC == <<"a", "b", "c">>
NameInvalid == <<"a", "-", "-", "b">>
RequestedNames == {NameABC, NameInvalid}

\* Random bytes crypto/rand may deliver to generateRandomTunnelName
RandomByteStrings == {<<36, 46, 47, 48>>, <<10, 11, 12, 13>>}

\* The exec command, after the split into key=value parts.  An exec request
\* whose payload fails to unmarshal hands over the empty command.
EmptyCommand == [id |-> "", tunnelname |-> << >>, type |-> ""]
Commands ==
    {EmptyCommand}
    \cup [id : {"", "a"}, tunnelname : RequestedNames, type : {"http"}]
    \cup [id : {"a"}, tunnelname : {<< >>}, type : {"tcp"}]
    \cup [id : {""}, tunnelname : {<< >>}, type : {"ftp"}]

\* Ports of tcpip-forward and cancel-tcpip-forward requests
HttpPorts == {8, httpBindPort}
TcpPorts == {0, firstScanPort}
ChannelTypes == {"session", "x11"}

\* ------------------------------------------------------------------------
\* State
\* ------------------------------------------------------------------------
VARIABLES
    proc,                   \* the server process: running, shutdown, fatal (log.Fatalf), panic
    connState,              \* per SSH connection: init, open, closed
    mainPc,                 \* handleIncomingSSHConn: channel loop and deferred teardown
    channelAlreadyHandled,  \* main.go:308
    channelLog,             \* the channel-open requests so far, each with its reply
    sessionHandlers,        \* sessionChannelHandler goroutines started so far
    scPc,                   \* sessionChannelHandler
    requestHandled,         \* main.go:366
    execRequest,            \* the command the handler hands over
    execRequestCompleted,   \* the rendezvous channel: open or closed
    gPc,                    \* handleGlobalRequests / forwardHandler / cancelForwardHandler
    fw,                     \* locals of the forward and cancel handlers
    reqPayload,             \* forwardHandler's reqPayload (shared by pointer)
    connTunnelName,         \* sshConnection.tunnelName (Nil or a name)
    connReqPayload,         \* sshConnection.reqPayload is set
    connSshChannel,         \* sshConnection.sshChannel is set
    sshTunnelListeners,     \* main.go:35
    sshTunnelListenersLock, \* main.go:36, the holder
    forwards,               \* main.go:37; every access is one atomic step under main.go:38
    listener,               \* the net.Listener a session's forward created
    accPc,                  \* acceptor goroutine of a TCP listener
    fwdReply,               \* reply to the session's latest tcpip-forward
    httpPc,                 \* handleHttpConnection of one public connection
    httpReq,                \* its listener address and the tunnel name of the request
    httpResult,             \* outcome of its latest registry lookup
    domainPath,             \* the tunnel name is in the URL path, not in the host name
    httpConnection,         \* the public connection: its state and what was written to it
    hadPreviousRequests,    \* remoteForward.go:356
    httpProcessor,          \* remoteForward.go:368: which processor of the connection, its lastError
    remoteTCPConnectionClose, \* remoteForward.go:507
    wg,                     \* remoteForward.go:508: the splicing tasks still running
    forwardedChannels,      \* forwarded-tcpip channels opened on each connection so far
    kaPc,                   \* the keepalive goroutine of one connection (main.go:277-306)
    missingReplies,         \* main.go:280
    kaRead,                 \* the value of missingReplies read at main.go:294
    kaRequests,             \* the keepalive requests sent, each pending, answered or failed
    cp,                     \* a chunkedReader, its bufio.Reader and the source it reads
    h,                      \* an httpProcessor, the reader it wraps and what its caller has read
    nameChecked,            \* a tunnel name and what tunnelNameValid returned for it
    sessionRequests,        \* the requests the session channel handler took, and its answers
    splice,                 \* the two copying tasks of one forwarded request and their peers
    acceptor                \* the goroutine that accepts SSH connections (main.go:151-181)

vars == <<proc, connState, mainPc, channelAlreadyHandled, channelLog,
          sessionHandlers, scPc, requestHandled, execRequest, execRequestCompleted,
          gPc, fw, reqPayload, connTunnelName, connReqPayload, connSshChannel,
          sshTunnelListeners, sshTunnelListenersLock, forwards,
          listener, accPc, fwdReply, httpPc, httpReq, httpResult,
          domainPath, httpConnection, hadPreviousRequests, httpProcessor,
          remoteTCPConnectionClose, wg, forwardedChannels,
          kaPc, missingReplies, kaRead, kaRequests, cp, h, nameChecked,
          sessionRequests, splice, acceptor>>

Nil == <<"nil">>
NoHolder == << >>
NoPayload == [BindAddr |-> << >>, BindPort |-> 0]
\* closer: who closed the listener first (a record of the model, not of the program)
NoListener == [state |-> "none", addr |-> << >>, port |-> 0, http |-> FALSE, closer |-> << >>]
NoReply == [ok |-> FALSE, port |-> 0, sent |-> FALSE, msg |-> ""]
\* h.URL of a start line without a request URI
NoURL == [parsed |-> FALSE, Path |-> << >>, host |-> << >>]
\* What a processor holds when the read of the headers failed with err
NoRead(err) ==
    [read |-> err, URL |-> NoURL, Host |-> << >>, ContentLength |-> << >>,
     TransferEncoding |-> << >>]
NoRequest == [addr |-> << >>, name |-> << >>]
NoConnection == [state |-> "none", written |-> << >>]
NoProcessor == [id |-> 0, lastError |-> "nil"]

\* forwardHandler's locals, cleared when the handler returns
NoLocals == [clientID |-> "", tunnelName |-> << >>, connectionType |-> "",
             addr |-> << >>, ok |-> FALSE, target |-> NoSession, payload |-> NoPayload]

\* hex.EncodeToString(conn.SessionID()): unique per connection
SessionID(s) == s
\* a reader that was not created yet
NoReader == [err |-> "none"]
NoSplice == [state |-> "none", tenant |-> "open", socket |-> "open"]

Init ==
    /\ proc = "running"
    /\ connState = [s \in Sessions |-> "init"]
    /\ mainPc = [s \in Sessions |-> "none"]
    /\ channelAlreadyHandled = [s \in Sessions |-> FALSE]
    /\ channelLog = [s \in Sessions |-> << >>]
    /\ sessionHandlers = [s \in Sessions |-> 0]
    /\ scPc = [s \in Sessions |-> "none"]
    /\ requestHandled = [s \in Sessions |-> FALSE]
    /\ execRequest = [s \in Sessions |-> EmptyCommand]
    /\ execRequestCompleted = [s \in Sessions |-> "open"]
    /\ gPc = [s \in Sessions |-> "none"]
    /\ fw = [s \in Sessions |-> NoLocals]
    /\ reqPayload = [s \in Sessions |-> NoPayload]
    /\ connTunnelName = [s \in Sessions |-> Nil]
    /\ connReqPayload = [s \in Sessions |-> FALSE]
    /\ connSshChannel = [s \in Sessions |-> FALSE]
    /\ sshTunnelListeners = << >>
    /\ sshTunnelListenersLock = NoHolder
    /\ forwards = << >>
    /\ listener = [s \in Sessions |-> NoListener]
    /\ accPc = [s \in Sessions |-> "none"]
    /\ fwdReply = [s \in Sessions |-> NoReply]
    /\ httpPc = "idle"
    /\ httpReq = NoRequest
    /\ httpResult = "none"
    /\ domainPath = FALSE
    /\ httpConnection = NoConnection
    /\ hadPreviousRequests = FALSE
    /\ httpProcessor = NoProcessor
    /\ remoteTCPConnectionClose = FALSE
    /\ wg = {}
    /\ forwardedChannels = [s \in Sessions |-> 0]
    /\ kaPc = "wait"
    /\ missingReplies = 0
    /\ kaRead = 0
    /\ kaRequests = << >>
    /\ cp = NoReader
    /\ h = NoReader
    /\ sessionRequests = [s \in Sessions |-> << >>]
    /\ nameChecked = [tunnelName |-> << >>, checked |-> FALSE, nameValid |-> FALSE]
    /\ splice = NoSplice
    /\ acceptor = [state |-> "accept", tempDelay |-> 0, nilConn |-> FALSE]

\* ------------------------------------------------------------------------
\* Maps (Go map operations on functions)
\* ------------------------------------------------------------------------
MapPut(m, k, v) == [x \in (DOMAIN m) \cup {k} |-> IF x = k THEN v ELSE m[x]]
MapDelete(m, k) == [x \in (DOMAIN m) \ {k} |-> m[x]]
Has(m, k) == k \in DOMAIN m

Running == proc = "running"

\* ------------------------------------------------------------------------
\* SSH connection, channel loop, session channel handler (main.go)
\* ------------------------------------------------------------------------

\* main.go:226-275: handshake done, handlers started
Connect(s) ==
    /\ Running
    /\ connState[s] = "init"
    /\ connState' = [connState EXCEPT ![s] = "open"]
    /\ mainPc' = [mainPc EXCEPT ![s] = "loop"]
    /\ gPc' = [gPc EXCEPT ![s] = "idle"]
    /\ UNCHANGED <<proc, channelAlreadyHandled, channelLog, sessionHandlers, scPc,
                   requestHandled, execRequest, execRequestCompleted, fw, reqPayload,
                   connTunnelName, connReqPayload, connSshChannel, sshTunnelListeners,
                   sshTunnelListenersLock, forwards, listener, accPc, fwdReply, httpPc,
                   httpReq, httpResult, domainPath, httpConnection, hadPreviousRequests,
                   httpProcessor, remoteTCPConnectionClose, wg, forwardedChannels, kaPc,
                   missingReplies, kaRead, kaRequests, cp, h, nameChecked, sessionRequests,
                   splice, acceptor>>

\* The connection ends (client gone, network error, keepalive close): the
\* channels chans, reqs and the session channel's requests are closed.
Disconnect(s) ==
    /\ Running
    /\ connState[s] = "open"
    /\ connState' = [connState EXCEPT ![s] = "closed"]
    /\ UNCHANGED <<proc, mainPc, channelAlreadyHandled, channelLog, sessionHandlers, scPc,
                   requestHandled, execRequest, execRequestCompleted, gPc, fw, reqPayload,
                   connTunnelName, connReqPayload, connSshChannel, sshTunnelListeners,
                   sshTunnelListenersLock, forwards, listener, accPc, fwdReply, httpPc,
                   httpReq, httpResult, domainPath, httpConnection, hadPreviousRequests,
                   httpProcessor, remoteTCPConnectionClose, wg, forwardedChannels, kaPc,
                   missingReplies, kaRead, kaRequests, cp, h, nameChecked, sessionRequests,
                   splice, acceptor>>

\* The channel loop without its channelAlreadyHandled flag
AcceptsChannel_AnySession(type, alreadyHandled) == type = "session"

\* main.go:316-326: does the channel loop hand this channel to a session handler?
AcceptsChannel(type, alreadyHandled) == type = "session" /\ ~alreadyHandled

\* main.go:310-327: one channel-open request
NewChannel(s, type) ==
    /\ Running
    /\ connState[s] = "open"
    /\ mainPc[s] = "loop"
    /\ Len(channelLog[s]) < MaxChannelOpens
    /\ IF AcceptsChannel(type, channelAlreadyHandled[s])
       THEN /\ channelAlreadyHandled' = [channelAlreadyHandled EXCEPT ![s] = TRUE]
            /\ sessionHandlers' = [sessionHandlers EXCEPT ![s] = @ + 1]
            /\ scPc' = [scPc EXCEPT ![s] = "accept"]
            /\ channelLog' = [channelLog EXCEPT ![s] =
                                 Append(@, [type |-> type, reply |-> "accept"])]
       ELSE /\ channelLog' = [channelLog EXCEPT ![s] =
                                 Append(@, [type |-> type, reply |-> "UnknownChannelType"])]
            /\ UNCHANGED <<channelAlreadyHandled, sessionHandlers, scPc>>
    /\ UNCHANGED <<proc, connState, mainPc, requestHandled, execRequest, execRequestCompleted,
                   gPc, fw, reqPayload, connTunnelName, connReqPayload, connSshChannel,
                   sshTunnelListeners, sshTunnelListenersLock, forwards, listener, accPc,
                   fwdReply, httpPc, httpReq, httpResult, domainPath, httpConnection,
                   hadPreviousRequests, httpProcessor, remoteTCPConnectionClose, wg,
                   forwardedChannels, kaPc, missingReplies, kaRead, kaRequests, cp, h,
                   nameChecked, sessionRequests, splice, acceptor>>

\* main.go:351-360: sshChannel.Accept(); it fails when the connection is gone
SessionAccept(s) ==
    /\ Running
    /\ scPc[s] = "accept"
    /\ scPc' = [scPc EXCEPT ![s] = IF connState[s] = "open" THEN "loop" ELSE "done"]
    /\ UNCHANGED <<proc, connState, mainPc, channelAlreadyHandled, channelLog, sessionHandlers,
                   requestHandled, execRequest, execRequestCompleted, gPc, fw, reqPayload,
                   connTunnelName, connReqPayload, connSshChannel, sshTunnelListeners,
                   sshTunnelListenersLock, forwards, listener, accPc, fwdReply, httpPc,
                   httpReq, httpResult, domainPath, httpConnection, hadPreviousRequests,
                   httpProcessor, remoteTCPConnectionClose, wg, forwardedChannels, kaPc,
                   missingReplies, kaRead, kaRequests, cp, h, nameChecked, sessionRequests,
                   splice, acceptor>>

\* A session handler that takes every exec request
AcceptsExec_Every(type, handled) == type = "exec"

\* main.go:370: does the handler take this request as the exec request?
AcceptsExec(type, handled) == type = "exec" /\ ~handled

\* main.go:369-382: the first exec request; the handler goes on to signal.
\* The request may be one that was queued before the connection ended.
ExecRequest(s, cmd) ==
    /\ Running
    /\ scPc[s] = "loop"
    /\ AcceptsExec("exec", requestHandled[s])
    /\ requestHandled' = [requestHandled EXCEPT ![s] = TRUE]
    /\ execRequest' = [execRequest EXCEPT ![s] = cmd]
    /\ scPc' = [scPc EXCEPT ![s] = "send"]
    /\ sessionRequests' = [sessionRequests EXCEPT ![s] =
                              Append(@, [type |-> "exec", errReply |-> "none", reply |-> "none",
                                         signaled |-> FALSE])]
    /\ UNCHANGED <<proc, connState, mainPc, channelAlreadyHandled, channelLog, sessionHandlers,
                   execRequestCompleted, gPc, fw, reqPayload, connTunnelName, connReqPayload,
                   connSshChannel, sshTunnelListeners, sshTunnelListenersLock, forwards,
                   listener, accPc, fwdReply, httpPc, httpReq, httpResult, domainPath,
                   httpConnection, hadPreviousRequests, httpProcessor,
                   remoteTCPConnectionClose, wg, forwardedChannels, kaPc, missingReplies,
                   kaRead, kaRequests, cp, h, nameChecked, splice, acceptor>>

\* main.go:369-382: the first exec request, with a payload that ssh.Unmarshal
\* rejects: req.Reply(false, nil) at line 375, and the handler goes on with
\* the empty payload.Value
ExecMalformed(s) ==
    /\ Running
    /\ scPc[s] = "loop"
    /\ AcceptsExec("exec", requestHandled[s])
    /\ requestHandled' = [requestHandled EXCEPT ![s] = TRUE]
    /\ execRequest' = [execRequest EXCEPT ![s] = EmptyCommand]
    /\ scPc' = [scPc EXCEPT ![s] = "send"]
    /\ sessionRequests' = [sessionRequests EXCEPT ![s] =
                              Append(@, [type |-> "exec", errReply |-> "false", reply |-> "none",
                                         signaled |-> FALSE])]
    /\ UNCHANGED <<proc, connState, mainPc, channelAlreadyHandled, channelLog, sessionHandlers,
                   execRequestCompleted, gPc, fw, reqPayload, connTunnelName, connReqPayload,
                   connSshChannel, sshTunnelListeners, sshTunnelListenersLock, forwards,
                   listener, accPc, fwdReply, httpPc, httpReq, httpResult, domainPath,
                   httpConnection, hadPreviousRequests, httpProcessor,
                   remoteTCPConnectionClose, wg, forwardedChannels, kaPc, missingReplies,
                   kaRead, kaRequests, cp, h, nameChecked, splice, acceptor>>

\* main.go:386-388: a request that is not the first exec request:
\* req.Reply(false, nil)
ChannelRequestRefused(s, type) ==
    /\ Running
    /\ scPc[s] = "loop"
    /\ Len(sessionRequests[s]) < MaxChannelRequests
    /\ ~AcceptsExec(type, requestHandled[s])
    /\ sessionRequests' = [sessionRequests EXCEPT ![s] =
                              Append(@, [type |-> type, errReply |-> "none", reply |-> "false",
                                         signaled |-> FALSE])]
    /\ UNCHANGED <<proc, connState, mainPc, channelAlreadyHandled, channelLog, sessionHandlers,
                   scPc, requestHandled, execRequest, execRequestCompleted, gPc, fw,
                   reqPayload, connTunnelName, connReqPayload, connSshChannel,
                   sshTunnelListeners, sshTunnelListenersLock, forwards, listener, accPc,
                   fwdReply, httpPc, httpReq, httpResult, domainPath, httpConnection,
                   hadPreviousRequests, httpProcessor, remoteTCPConnectionClose, wg,
                   forwardedChannels, kaPc, missingReplies, kaRead, kaRequests, cp, h,
                   nameChecked, splice, acceptor>>

\* ------------------------------------------------------------------------
\* The forward handler (remoteForward.go forwardHandler)
\* ------------------------------------------------------------------------
ForwardPayloads == [BindAddr : BindAddrs, BindPort : HttpPorts \cup TcpPorts]
CancelPayloads == [BindAddr : BindAddrs, BindPort : HttpPorts \cup {firstScanPort}]

\* handleGlobalRequests replies to the tcpip-forward and takes the next
\* request; msg is what the handler wrote to the session channel when it
\* refused the port
ForwardReplies(s, ok, port, msg) ==
    /\ gPc' = [gPc EXCEPT ![s] = "idle"]
    /\ fw' = [fw EXCEPT ![s] = NoLocals]
    /\ fwdReply' = [fwdReply EXCEPT ![s] = [ok |-> ok, port |-> port, sent |-> TRUE, msg |-> msg]]

ForwardReturn(s, ok, port) == ForwardReplies(s, ok, port, "")

\* main.go:333-336, remoteForward.go:33-42: a tcpip-forward request arrives and
\* its handler blocks on the rendezvous.  A request after the one that met the
\* exec can never leave the receive, its payload is not kept.
ForwardRequest(s, payload) ==
    /\ Running
    /\ connState[s] = "open"
    /\ gPc[s] = "idle"
    /\ gPc' = [gPc EXCEPT ![s] = "waitExec"]
    /\ fw' = [fw EXCEPT ![s].payload = IF connSshChannel[s] THEN NoPayload ELSE payload]
    /\ UNCHANGED <<proc, connState, mainPc, channelAlreadyHandled, channelLog, sessionHandlers,
                   scPc, requestHandled, execRequest, execRequestCompleted, reqPayload,
                   connTunnelName, connReqPayload, connSshChannel, sshTunnelListeners,
                   sshTunnelListenersLock, forwards, listener, accPc, fwdReply, httpPc,
                   httpReq, httpResult, domainPath, httpConnection, hadPreviousRequests,
                   httpProcessor, remoteTCPConnectionClose, wg, forwardedChannels, kaPc,
                   missingReplies, kaRead, kaRequests, cp, h, nameChecked, sessionRequests,
                   splice, acceptor>>

\* remoteForward.go:34-37: the payload of the tcpip-forward does not unmarshal
ForwardMalformed(s) ==
    /\ Running
    /\ connState[s] = "open"
    /\ gPc[s] = "idle"
    /\ ForwardReturn(s, FALSE, 0)
    /\ UNCHANGED <<proc, connState, mainPc, channelAlreadyHandled, channelLog, sessionHandlers,
                   scPc, requestHandled, execRequest, execRequestCompleted, reqPayload,
                   connTunnelName, connReqPayload, connSshChannel, sshTunnelListeners,
                   sshTunnelListenersLock, forwards, listener, accPc, httpPc, httpReq,
                   httpResult, domainPath, httpConnection, hadPreviousRequests, httpProcessor,
                   remoteTCPConnectionClose, wg, forwardedChannels, kaPc, missingReplies,
                   kaRead, kaRequests, cp, h, nameChecked, sessionRequests, splice, acceptor>>

\* remoteForward.go:42-46: the receive returns the zero value once the
\* rendezvous channel is closed
ForwardWakesOnClose(s) ==
    /\ Running
    /\ gPc[s] = "waitExec"
    /\ execRequestCompleted[s] = "closed"
    /\ ForwardReturn(s, FALSE, 0)
    /\ UNCHANGED <<proc, connState, mainPc, channelAlreadyHandled, channelLog, sessionHandlers,
                   scPc, requestHandled, execRequest, execRequestCompleted, reqPayload,
                   connTunnelName, connReqPayload, connSshChannel, sshTunnelListeners,
                   sshTunnelListenersLock, forwards, listener, accPc, httpPc, httpReq,
                   httpResult, domainPath, httpConnection, hadPreviousRequests, httpProcessor,
                   remoteTCPConnectionClose, wg, forwardedChannels, kaPc, missingReplies,
                   kaRead, kaRequests, cp, h, nameChecked, sessionRequests, splice, acceptor>>

\* main.go:333: the requests channel is closed, handleGlobalRequests ends
GlobalLoopEnds(s) ==
    /\ Running
    /\ gPc[s] = "idle"
    /\ connState[s] = "closed"
    /\ gPc' = [gPc EXCEPT ![s] = "done"]
    /\ UNCHANGED <<proc, connState, mainPc, channelAlreadyHandled, channelLog, sessionHandlers,
                   scPc, requestHandled, execRequest, execRequestCompleted, fw, reqPayload,
                   connTunnelName, connReqPayload, connSshChannel, sshTunnelListeners,
                   sshTunnelListenersLock, forwards, listener, accPc, fwdReply, httpPc,
                   httpReq, httpResult, domainPath, httpConnection, hadPreviousRequests,
                   httpProcessor, remoteTCPConnectionClose, wg, forwardedChannels, kaPc,
                   missingReplies, kaRead, kaRequests, cp, h, nameChecked, sessionRequests,
                   splice, acceptor>>

\* remoteForward.go:79: a type= part with an unknown connection type
InvalidConnectionType(type) == type # "" /\ type \notin {"https", "http", "tcp"}

\* remoteForward.go:104: the HTTP branch
IsHttpType(type) == type = "http" \/ type = "https"

\* remoteForward.go:90-93
EffectiveClientID(s, id) == IF id = "" THEN SessionID(s) ELSE id

\* A forward handler that does not wait for the exec command
ExecHandedOver_NoWait(s) == TRUE

\* remoteForward.go:42: the exec command has been handed over
ExecHandedOver(s) == scPc[s] = "send" /\ execRequestCompleted[s] = "open"

\* main.go:382-384 with remoteForward.go:42-104: the unbuffered send meets the
\* receive.  The session handler replies to the exec and returns to its loop;
\* the forward handler caches the session channel, parses the command,
\* publishes the payload and chooses its branch.
ExecRendezvous(s) ==
    LET cmd == execRequest[s]
        addr == JoinHostPort(fw[s].payload.BindAddr, Itoa(fw[s].payload.BindPort))
    IN  /\ Running
        /\ gPc[s] = "waitExec"
        /\ ExecHandedOver(s)
        /\ scPc' = [scPc EXCEPT ![s] = IF scPc[s] = "send" THEN "loop" ELSE @]
        /\ sessionRequests' = [sessionRequests EXCEPT ![s] =
                                  IF scPc[s] = "send"
                                  THEN [@ EXCEPT ![Len(@)].reply = "true", ![Len(@)].signaled = TRUE]
                                  ELSE @]
        /\ connSshChannel' = [connSshChannel EXCEPT ![s] = TRUE]
        /\ IF InvalidConnectionType(cmd.type)
           THEN /\ ForwardReturn(s, FALSE, 0)
                /\ UNCHANGED <<reqPayload, connReqPayload>>
           ELSE /\ reqPayload' = [reqPayload EXCEPT ![s] = fw[s].payload]
                /\ connReqPayload' = [connReqPayload EXCEPT ![s] = TRUE]
                /\ fw' = [fw EXCEPT ![s].clientID = EffectiveClientID(s, cmd.id),
                                    ![s].tunnelName = cmd.tunnelname,
                                    ![s].connectionType = cmd.type,
                                    ![s].addr = addr,
                                    ![s].payload = NoPayload]
                /\ gPc' = [gPc EXCEPT ![s] = IF IsHttpType(cmd.type) THEN "httpLock" ELSE "tcpLock"]
                /\ UNCHANGED fwdReply
        /\ UNCHANGED <<proc, connState, mainPc, channelAlreadyHandled, channelLog,
                       sessionHandlers, requestHandled, execRequest, execRequestCompleted,
                       connTunnelName, sshTunnelListeners, sshTunnelListenersLock, forwards,
                       listener, accPc, httpPc, httpReq, httpResult, domainPath,
                       httpConnection, hadPreviousRequests, httpProcessor,
                       remoteTCPConnectionClose, wg, forwardedChannels, kaPc, missingReplies,
                       kaRead, kaRequests, cp, h, nameChecked, splice, acceptor>>

\* main.go:382: a send on the closed rendezvous channel panics
ExecSendOnClosed(s) ==
    /\ Running
    /\ scPc[s] = "send"
    /\ execRequestCompleted[s] = "closed"
    /\ proc' = "panic"
    /\ UNCHANGED <<connState, mainPc, channelAlreadyHandled, channelLog, sessionHandlers, scPc,
                   requestHandled, execRequest, execRequestCompleted, gPc, fw, reqPayload,
                   connTunnelName, connReqPayload, connSshChannel, sshTunnelListeners,
                   sshTunnelListenersLock, forwards, listener, accPc, fwdReply, httpPc,
                   httpReq, httpResult, domainPath, httpConnection, hadPreviousRequests,
                   httpProcessor, remoteTCPConnectionClose, wg, forwardedChannels, kaPc,
                   missingReplies, kaRead, kaRequests, cp, h, nameChecked, sessionRequests,
                   splice, acceptor>>

\* main.go:369, 363: the requests channel is closed, the loop ends, channel.Close()
SessionLoopEnds(s) ==
    /\ Running
    /\ scPc[s] = "loop"
    /\ connState[s] = "closed"
    /\ scPc' = [scPc EXCEPT ![s] = "done"]
    /\ UNCHANGED <<proc, connState, mainPc, channelAlreadyHandled, channelLog, sessionHandlers,
                   requestHandled, execRequest, execRequestCompleted, gPc, fw, reqPayload,
                   connTunnelName, connReqPayload, connSshChannel, sshTunnelListeners,
                   sshTunnelListenersLock, forwards, listener, accPc, fwdReply, httpPc,
                   httpReq, httpResult, domainPath, httpConnection, hadPreviousRequests,
                   httpProcessor, remoteTCPConnectionClose, wg, forwardedChannels, kaPc,
                   missingReplies, kaRead, kaRequests, cp, h, nameChecked, sessionRequests,
                   splice, acceptor>>

\* A name check that refuses every name with an entry, the caller's own included
TakenOrInvalid_AnyOwner(table, key, name, clientID) ==
    IF tunnelNameValid(name) THEN Has(table, key) ELSE TRUE

\* remoteForward.go:117-128: is the requested name unusable for this client?
TakenOrInvalid(table, key, name, clientID) ==
    IF tunnelNameValid(name)
    THEN Has(table, key) /\ table[key].clientID # clientID
    ELSE TRUE

\* A generation loop that takes the first name it draws
GeneratedNameTaken_Never(table, key) == FALSE

\* remoteForward.go:137: a generated name is retried while it has an entry
GeneratedNameTaken(table, key) == Has(table, key)

\* remoteForward.go:116-141: lock the tunnel table, check the requested name
\* and, when it cannot be used, generate names until one has no entry (the
\* loop's last turn is the one modelled).  When crypto/rand fails the handler
\* returns at line 135 with the mutex still locked.  Line 124 tells the
\* session channel, with the mutex held, that a valid name belongs to another
\* client.
HttpAcquire(s) ==
    /\ Running
    /\ gPc[s] = "httpLock"
    /\ sshTunnelListenersLock = NoHolder
    /\ sshTunnelListenersLock' = <<"forward", s>>
    /\ IF TakenOrInvalid(sshTunnelListeners, fw[s].addr \o fw[s].tunnelName,
                         fw[s].tunnelName, fw[s].clientID)
       THEN \/ \E rb \in RandomByteStrings :
                 LET name == generateRandomTunnelName(rb)
                 IN  /\ ~GeneratedNameTaken(sshTunnelListeners, fw[s].addr \o name)
                     /\ fw' = [fw EXCEPT ![s].tunnelName = name]
                     /\ gPc' = [gPc EXCEPT ![s] = "httpInsert"]
                     /\ fwdReply' = [fwdReply EXCEPT ![s].msg =
                                         IF tunnelNameValid(fw[s].tunnelName)
                                         THEN "Specified tunnelName already taken"
                                         ELSE fwdReply[s].msg]
            \/ ForwardReplies(s, FALSE, 0, IF tunnelNameValid(fw[s].tunnelName)
                                           THEN "Specified tunnelName already taken"
                                           ELSE "")
       ELSE /\ gPc' = [gPc EXCEPT ![s] = "httpInsert"]
            /\ UNCHANGED <<fw, fwdReply>>
    /\ UNCHANGED <<proc, connState, mainPc, channelAlreadyHandled, channelLog, sessionHandlers,
                   scPc, requestHandled, execRequest, execRequestCompleted, reqPayload,
                   connTunnelName, connReqPayload, connSshChannel, sshTunnelListeners,
                   forwards, listener, accPc, httpPc, httpReq, httpResult, domainPath,
                   httpConnection, hadPreviousRequests, httpProcessor,
                   remoteTCPConnectionClose, wg, forwardedChannels, kaPc, missingReplies,
                   kaRead, kaRequests, cp, h, nameChecked, sessionRequests, splice, acceptor>>

\* remoteForward.go:147-154
TunnelEntry(s, clientID, type) ==
    [conn |-> s, reqPayload |-> TRUE, sessionID |-> SessionID(s), clientID |-> clientID,
     connectionType |-> type]

\* remoteForward.go:146-167: publish the name, insert the descriptor, unlock,
\* write the public URL to the session channel
HttpInsert(s) ==
    /\ Running
    /\ gPc[s] = "httpInsert"
    /\ connTunnelName' = [connTunnelName EXCEPT ![s] = fw[s].tunnelName]
    /\ sshTunnelListeners' = MapPut(sshTunnelListeners, fw[s].addr \o fw[s].tunnelName,
                                    TunnelEntry(s, fw[s].clientID, fw[s].connectionType))
    /\ sshTunnelListenersLock' = NoHolder
    /\ gPc' = [gPc EXCEPT ![s] = "listenerLock"]
    /\ UNCHANGED <<proc, connState, mainPc, channelAlreadyHandled, channelLog, sessionHandlers,
                   scPc, requestHandled, execRequest, execRequestCompleted, fw, reqPayload,
                   connReqPayload, connSshChannel, forwards, listener, accPc, fwdReply, httpPc,
                   httpReq, httpResult, domainPath, httpConnection, hadPreviousRequests,
                   httpProcessor, remoteTCPConnectionClose, wg, forwardedChannels, kaPc,
                   missingReplies, kaRead, kaRequests, cp, h, nameChecked, sessionRequests,
                   splice, acceptor>>

\* ------------------------------------------------------------------------
\* Listeners (net.Listen, net.Listener.Close)
\* ------------------------------------------------------------------------
\* Port the operating system hands out for a listen on port 0
EphemeralPort == MaxPort

PortBound(ls, p) == \E t \in Sessions : ls[t].state = "open" /\ ls[t].port = p

\* The port a listen on p would bind
ActualPort(p) == IF p = 0 THEN EphemeralPort ELSE p

\* Outcomes of net.Listen("tcp", host:p): it fails for a port above the
\* highest TCP port and for a port that is bound; any listen may fail for a
\* reason of the operating system.
ListenOutcomes(ls, p) ==
    IF p > MaxPort \/ PortBound(ls, ActualPort(p)) THEN {FALSE} ELSE {TRUE, FALSE}

OpenListener(addr, p, http) ==
    [state |-> "open", addr |-> addr, port |-> ActualPort(p), http |-> http, closer |-> << >>]

\* net.Listener.Close(), by the task named
CloseListener(ls, t, by) ==
    IF ls[t].state = "open" THEN [ls EXCEPT ![t].state = "closed", ![t].closer = by] ELSE ls

\* remoteForward.go:191
HttpForwardEntry(s) == [listener |-> s, clientID |-> "", sessionID |-> "", conType |-> "http"]

\* remoteForward.go:260
TcpForwardEntry(s, clientID) ==
    [listener |-> s, clientID |-> clientID, sessionID |-> SessionID(s), conType |-> "tcp"]

\* remoteForward.go:178-223, under the forwards mutex: use the listener
\* registered for the address, or bind and register the shared HTTP listener
\* and start its acceptor; reply with the listener's port.  A failed bind ends
\* the process (log.Fatalf).
HttpListener(s) ==
    /\ Running
    /\ gPc[s] = "listenerLock"
    /\ IF Has(forwards, fw[s].addr)
       THEN /\ ForwardReturn(s, TRUE, listener[forwards[fw[s].addr].listener].port)
            /\ UNCHANGED <<proc, forwards, listener>>
       ELSE \E success \in ListenOutcomes(listener, reqPayload[s].BindPort) :
               IF success
               THEN /\ listener' = [listener EXCEPT ![s] =
                                        OpenListener(fw[s].addr, reqPayload[s].BindPort, TRUE)]
                    /\ forwards' = MapPut(forwards, fw[s].addr, HttpForwardEntry(s))
                    /\ ForwardReturn(s, TRUE, ActualPort(reqPayload[s].BindPort))
                    /\ UNCHANGED proc
               ELSE /\ proc' = "fatal"
                    /\ UNCHANGED <<fw, gPc, fwdReply, forwards, listener>>
    /\ UNCHANGED <<connState, mainPc, channelAlreadyHandled, channelLog, sessionHandlers, scPc,
                   requestHandled, execRequest, execRequestCompleted, reqPayload,
                   connTunnelName, connReqPayload, connSshChannel, sshTunnelListeners,
                   sshTunnelListenersLock, accPc, httpPc, httpReq, httpResult, domainPath,
                   httpConnection, hadPreviousRequests, httpProcessor,
                   remoteTCPConnectionClose, wg, forwardedChannels, kaPc, missingReplies,
                   kaRead, kaRequests, cp, h, nameChecked, sessionRequests, splice, acceptor>>

\* remoteForward.go:235: bounds of the port scan
ScanFrom == firstScanPort
ScanTo == lastScanPort

RECURSIVE ScanPort(_, _, _)
\* remoteForward.go:235-242: the first port from p on without an entry, or 0
\* when the scan runs out
ScanPort(table, bindAddr, p) ==
    IF p > ScanTo THEN 0
    ELSE IF ~Has(table, JoinHostPort(bindAddr, Itoa(p))) THEN p
    ELSE ScanPort(table, bindAddr, p + 1)

\* remoteForward.go:246: the caller may bind the address
MayBind(table, addr, clientID) == ~Has(table, addr) \/ table[addr].clientID = clientID

\* remoteForward.go:228-346, under the forwards mutex: allocate the port, take
\* the address over from the same client or reject; on success start the
\* acceptor and reply with the port
TcpForward(s) ==
    LET bindAddr == reqPayload[s].BindAddr
        scanned == IF reqPayload[s].BindPort = 0
                   THEN ScanPort(forwards, bindAddr, ScanFrom)
                   ELSE reqPayload[s].BindPort
        \* the loop leaves addr at the last port it tried
        addr == IF reqPayload[s].BindPort # 0 THEN fw[s].addr
                ELSE IF scanned # 0 THEN JoinHostPort(bindAddr, Itoa(scanned))
                ELSE JoinHostPort(bindAddr, Itoa(ScanTo))
        sameClient == Has(forwards, addr) /\ forwards[addr].clientID = fw[s].clientID
        closed == IF sameClient THEN CloseListener(listener, forwards[addr].listener, <<"takeover", s>>)
                  ELSE listener
        listenPort == IF scanned # 0 THEN scanned ELSE ScanTo
    IN  /\ Running
        /\ gPc[s] = "tcpLock"
        /\ reqPayload' = [reqPayload EXCEPT ![s].BindPort = scanned]
        /\ IF MayBind(forwards, addr, fw[s].clientID)
           THEN \E success \in ListenOutcomes(closed, listenPort) :
                   IF success
                   THEN /\ listener' = [closed EXCEPT ![s] = OpenListener(addr, listenPort, FALSE)]
                        /\ forwards' = MapPut(forwards, addr, TcpForwardEntry(s, fw[s].clientID))
                        /\ accPc' = [accPc EXCEPT ![s] = "accept"]
                        /\ ForwardReturn(s, TRUE, scanned)
                   ELSE /\ listener' = closed
                        /\ ForwardReturn(s, FALSE, 0)
                        /\ UNCHANGED <<forwards, accPc>>
           ELSE /\ ForwardReplies(s, FALSE, 0, "TCP port is already taken.")
                /\ UNCHANGED <<listener, forwards, accPc>>
        /\ UNCHANGED <<proc, connState, mainPc, channelAlreadyHandled, channelLog,
                       sessionHandlers, scPc, requestHandled, execRequest,
                       execRequestCompleted, connTunnelName, connReqPayload, connSshChannel,
                       sshTunnelListeners, sshTunnelListenersLock, httpPc, httpReq, httpResult,
                       domainPath, httpConnection, hadPreviousRequests, httpProcessor,
                       remoteTCPConnectionClose, wg, forwardedChannels, kaPc, missingReplies,
                       kaRead, kaRequests, cp, h, nameChecked, sessionRequests, splice,
                       acceptor>>

\* An ownership test that takes every entry for the session's own
OwnsForward_Any(entry, s) == TRUE

\* remoteForward.go:338 and main.go:263: the entry was registered by this session
OwnsForward(entry, s) == entry.sessionID = SessionID(s)

\* remoteForward.go:275-285, 336-343: Accept fails once the listener is closed;
\* the acceptor leaves its loop and removes its session's entry
AcceptorExit(s) ==
    LET addr == listener[s].addr
        owned == Has(forwards, addr) /\ OwnsForward(forwards[addr], s)
    IN  /\ Running
        /\ accPc[s] = "accept"
        /\ listener[s].state = "closed"
        /\ forwards' = IF owned THEN MapDelete(forwards, addr) ELSE forwards
        /\ listener' = IF owned THEN CloseListener(listener, forwards[addr].listener, <<"acceptor", s>>)
                       ELSE listener
        /\ accPc' = [accPc EXCEPT ![s] = "done"]
        /\ UNCHANGED <<proc, connState, mainPc, channelAlreadyHandled, channelLog,
                       sessionHandlers, scPc, requestHandled, execRequest,
                       execRequestCompleted, gPc, fw, reqPayload, connTunnelName,
                       connReqPayload, connSshChannel, sshTunnelListeners,
                       sshTunnelListenersLock, fwdReply, httpPc, httpReq, httpResult,
                       domainPath, httpConnection, hadPreviousRequests, httpProcessor,
                       remoteTCPConnectionClose, wg, forwardedChannels, kaPc, missingReplies,
                       kaRead, kaRequests, cp, h, nameChecked, sessionRequests, splice,
                       acceptor>>

\* ------------------------------------------------------------------------
\* cancel-tcpip-forward (remoteForward.go cancelForwardHandler)
\* ------------------------------------------------------------------------
\* remoteForward.go:577: the request is treated as one for an HTTP tunnel
CancelIsHttp(port) == port = httpBindPort

\* remoteForward.go:585 and main.go:249: the entry was registered by this session
OwnsTunnel(entry, s) == entry.sessionID = SessionID(s)

\* main.go:337-339, remoteForward.go:572-597: a cancel-tcpip-forward arrives.
\* For the HTTP port the session's own descriptor is removed under the tunnel
\* table's mutex; for any other port the listener is looked up under the
\* forwards mutex, to be closed next.
CancelRequest(s, payload) ==
    LET addr == JoinHostPort(payload.BindAddr, Itoa(payload.BindPort))
        key == addr \o connTunnelName[s]
        owned == Has(sshTunnelListeners, key) /\ OwnsTunnel(sshTunnelListeners[key], s)
    IN  /\ Running
        /\ connState[s] = "open"
        /\ gPc[s] = "idle"
        /\ IF CancelIsHttp(payload.BindPort)
           THEN /\ connTunnelName[s] # Nil
                /\ sshTunnelListenersLock = NoHolder
                /\ sshTunnelListeners' = IF owned THEN MapDelete(sshTunnelListeners, key)
                                         ELSE sshTunnelListeners
                /\ UNCHANGED <<fw, gPc>>
           ELSE /\ fw' = [fw EXCEPT ![s].ok = Has(forwards, addr),
                                    ![s].target = IF Has(forwards, addr)
                                                  THEN forwards[addr].listener ELSE NoSession]
                /\ gPc' = [gPc EXCEPT ![s] = "cancelTcpClose"]
                /\ UNCHANGED sshTunnelListeners
        /\ UNCHANGED <<proc, connState, mainPc, channelAlreadyHandled, channelLog,
                       sessionHandlers, scPc, requestHandled, execRequest,
                       execRequestCompleted, reqPayload, connTunnelName, connReqPayload,
                       connSshChannel, sshTunnelListenersLock, forwards, listener, accPc,
                       fwdReply, httpPc, httpReq, httpResult, domainPath, httpConnection,
                       hadPreviousRequests, httpProcessor, remoteTCPConnectionClose, wg,
                       forwardedChannels, kaPc, missingReplies, kaRead, kaRequests, cp, h,
                       nameChecked, sessionRequests, splice, acceptor>>

\* remoteForward.go:598-601: close the listener that was found
CancelTcpClose(s) ==
    /\ Running
    /\ gPc[s] = "cancelTcpClose"
    /\ listener' = IF fw[s].ok THEN CloseListener(listener, fw[s].target, <<"cancel", s>>)
                   ELSE listener
    /\ gPc' = [gPc EXCEPT ![s] = "idle"]
    /\ fw' = [fw EXCEPT ![s] = NoLocals]
    /\ UNCHANGED <<proc, connState, mainPc, channelAlreadyHandled, channelLog, sessionHandlers,
                   scPc, requestHandled, execRequest, execRequestCompleted, reqPayload,
                   connTunnelName, connReqPayload, connSshChannel, sshTunnelListeners,
                   sshTunnelListenersLock, forwards, accPc, fwdReply, httpPc, httpReq,
                   httpResult, domainPath, httpConnection, hadPreviousRequests, httpProcessor,
                   remoteTCPConnectionClose, wg, forwardedChannels, kaPc, missingReplies,
                   kaRead, kaRequests, cp, h, nameChecked, sessionRequests, splice, acceptor>>

\* ------------------------------------------------------------------------
\* Teardown of a connection (main.go:238-270, deferred)
\* ------------------------------------------------------------------------
\* A teardown that purges the TCP entry of its address whoever registered it
TeardownPurges_AnySession(entry, s) == entry.conType = "tcp"

\* main.go:263: only a TCP entry of this session is purged
TeardownPurges(entry, s) == entry.conType = "tcp" /\ OwnsForward(entry, s)

\* main.go:310, 239-270: the channel loop ends with the connection.  The
\* session's descriptor is removed under the tunnel table's mutex, then its
\* TCP entry is removed and its listener closed under the forwards mutex.
Teardown(s) ==
    LET addr == JoinHostPort(reqPayload[s].BindAddr, Itoa(reqPayload[s].BindPort))
        named == connTunnelName[s] # Nil /\ connReqPayload[s]
        key == addr \o connTunnelName[s]
        owned == named /\ Has(sshTunnelListeners, key) /\ OwnsTunnel(sshTunnelListeners[key], s)
        purge == /\ connReqPayload[s]
                 /\ Has(forwards, addr)
                 /\ TeardownPurges(forwards[addr], s)
    IN  /\ Running
        /\ mainPc[s] = "loop"
        /\ connState[s] = "closed"
        /\ named => sshTunnelListenersLock = NoHolder
        /\ sshTunnelListeners' = IF owned THEN MapDelete(sshTunnelListeners, key)
                                 ELSE sshTunnelListeners
        /\ forwards' = IF purge THEN MapDelete(forwards, addr) ELSE forwards
        /\ listener' = IF purge THEN CloseListener(listener, forwards[addr].listener, <<"teardown", s>>)
                       ELSE listener
        /\ mainPc' = [mainPc EXCEPT ![s] = "teardownClose"]
        /\ UNCHANGED <<proc, connState, channelAlreadyHandled, channelLog, sessionHandlers,
                       scPc, requestHandled, execRequest, execRequestCompleted, gPc, fw,
                       reqPayload, connTunnelName, connReqPayload, connSshChannel,
                       sshTunnelListenersLock, accPc, fwdReply, httpPc, httpReq, httpResult,
                       domainPath, httpConnection, hadPreviousRequests, httpProcessor,
                       remoteTCPConnectionClose, wg, forwardedChannels, kaPc, missingReplies,
                       kaRead, kaRequests, cp, h, nameChecked, sessionRequests, splice,
                       acceptor>>

\* main.go:238: close(execRequestCompleted); a sender blocked on the channel panics
TeardownClose(s) ==
    /\ Running
    /\ mainPc[s] = "teardownClose"
    /\ execRequestCompleted' = [execRequestCompleted EXCEPT ![s] = "closed"]
    /\ mainPc' = [mainPc EXCEPT ![s] = "done"]
    /\ proc' = IF scPc[s] = "send" THEN "panic" ELSE proc
    /\ UNCHANGED <<connState, channelAlreadyHandled, channelLog, sessionHandlers, scPc,
                   requestHandled, execRequest, gPc, fw, reqPayload, connTunnelName,
                   connReqPayload, connSshChannel, sshTunnelListeners, sshTunnelListenersLock,
                   forwards, listener, accPc, fwdReply, httpPc, httpReq, httpResult,
                   domainPath, httpConnection, hadPreviousRequests, httpProcessor,
                   remoteTCPConnectionClose, wg, forwardedChannels, kaPc, missingReplies,
                   kaRead, kaRequests, cp, h, nameChecked, sessionRequests, splice, acceptor>>

\* ------------------------------------------------------------------------
\* Public HTTP connections (remoteForward.go handleHttpConnection)
\* ------------------------------------------------------------------------
\* Requests a public connection carries before its client stops sending
MaxRequests == 2

\* The public domain of the server (--domain): host and path of its URL
domainURIHost == <<"d", ".", "i", "o">>
domainURIPath == << >>

\* strings.Index, counted from 1; 0 when sub does not occur in s
Index(s, sub) ==
    LET hits == {i \in 1..(Len(s) - Len(sub) + 1) : SubSeq(s, i, i + Len(sub) - 1) = sub}
    IN  IF hits = {} THEN 0 ELSE CHOOSE i \in hits : \A j \in hits : i <= j

HasPrefix(s, prefix) == Len(s) >= Len(prefix) /\ SubSeq(s, 1, Len(prefix)) = prefix

TrimPrefix(s, prefix) == IF HasPrefix(s, prefix) THEN SubSeq(s, Len(prefix) + 1, Len(s)) ELSE s

IsSpace(c) == c \in {" ", "\t", "\n", "\r"}

\* strings.TrimSpace
TrimSpace(s) ==
    LET keep == {i \in DOMAIN s : ~IsSpace(s[i])}
    IN  IF keep = {} THEN << >>
        ELSE SubSeq(s, CHOOSE i \in keep : \A j \in keep : i <= j,
                       CHOOSE i \in keep : \A j \in keep : i >= j)

Ok(v) == [err |-> "nil", val |-> v]
Err(e) == [err |-> e, val |-> << >>]

\* utils.go extractSubdomain
extractSubdomain(host, domainHost) ==
    LET domainIndex == Index(host, domainHost) - 1
    IN  IF domainIndex <= 0
        THEN Err("could not find a valid subdomain in http request headers")
        ELSE Ok(TrimSpace(SubSeq(host, 1, domainIndex - 1)))

\* utils.go extractTunnelNameFromURLPath
extractTunnelNameFromURLPath(path, urlPath) ==
    LET slash == Index(urlPath, <<"/">>)
        domainPrefix == IF slash = 0
                        THEN (IF HasPrefix(path, <<"/">>) THEN <<"/">> ELSE << >>)
                        ELSE (IF HasPrefix(path, <<"/">>)
                              THEN SubSeq(urlPath, slash, Len(urlPath))
                              ELSE SubSeq(urlPath, slash + 1, Len(urlPath)))
        trimmedPath == TrimPrefix(TrimPrefix(path, domainPrefix), <<"/">>)
        domainEndIndex == IF Index(trimmedPath, <<"/">>) = 0 THEN Len(trimmedPath)
                          ELSE Index(trimmedPath, <<"/">>) - 1
        tunnelName == TrimSpace(SubSeq(trimmedPath, 1, domainEndIndex))
    IN  IF ~HasPrefix(path, domainPrefix) \/ tunnelName = << >>
        THEN Err("could not find a valid tunnelName in http request path")
        ELSE Ok(tunnelName)

\* strconv.ParseInt(s, 10, 64) succeeds: an optional sign, then digits
ParseIntOk(s) ==
    LET digits == IF s # << >> /\ s[1] \in {"+", "-"} THEN Tail(s) ELSE s
    IN  /\ digits # << >>
        /\ \A i \in DOMAIN digits : digits[i] \in Range(DigitChars)

\* A public request as the processor sees it once it has read the headers:
\* the outcome of the read (nil, io.EOF, the error of a closed connection, or
\* a header block the parser refuses), the parsed URL (NoURL when the start
\* line holds none) with its host= query parameter, and the values of the
\* headers the handler looks at.
HostOf(name) == name \o <<".">> \o domainURIHost
PathOf(name) == <<"/">> \o name \o <<"/", "x">>
Chunked == <<"c", "h", "u", "n", "k", "e", "d">>
NameUnknown == <<"z", "z">>
Request(url, host, contentLength, transferEncoding) ==
    [read |-> "nil", URL |-> url, Host |-> host, ContentLength |-> contentLength,
     TransferEncoding |-> transferEncoding]
UrlOf(path, host) == [parsed |-> TRUE, Path |-> path, host |-> host]

PublicRequests ==
    {Request(UrlOf(PathOf(NameABC), << >>), <<HostOf(NameABC)>>, << >>, << >>),
     Request(UrlOf(PathOf(NameABC), << >>), <<HostOf(NameABC)>>, <<<<"1", "2">>>>, << >>),
     Request(UrlOf(PathOf(NameABC), << >>), <<HostOf(NameABC)>>, <<<<"1", "x">>>>, << >>),
     Request(UrlOf(PathOf(NameABC), << >>), <<HostOf(NameABC)>>, <<<<"1", "x">>>>, <<Chunked>>),
     Request(UrlOf(PathOf(NameUnknown), << >>), <<HostOf(NameUnknown)>>, << >>, << >>),
     Request(UrlOf(<<"/">>, << >>), << >>, << >>, << >>),
     Request(UrlOf(<<"/">>, << >>), <<domainURIHost>>, << >>, << >>),
     Request(UrlOf(<<"/">>, << >>), <<<<".">> \o domainURIHost>>, << >>, << >>),
     Request(UrlOf(PathOf(NameABC), << >>), <<HostOf(NameABC), HostOf(NameABC)>>, << >>, << >>),
     Request(UrlOf(<<"/">>, HostOf(NameABC)), << >>, << >>, << >>),
     Request(NoURL, <<HostOf(NameABC)>>, << >>, << >>),
     NoRead("EOF"), NoRead("use of closed network connection"),
     NoRead("could not Read the headers within the allocated buffer")}

\* A request of a client that keeps to the protocol, for the tunnel abc
PlainRequests == {Request(UrlOf(PathOf(NameABC), << >>), <<HostOf(NameABC)>>, << >>, << >>)}

\* httpProcessor.go:88-108 GetHost
GetHost(req) ==
    IF req.read # "nil" THEN Err(req.read)
    ELSE IF req.URL.parsed /\ req.URL.host # << >> THEN Ok(req.URL.host)
    ELSE IF Len(req.Host) = 1 THEN Ok(req.Host[1])
    ELSE Err("could not find Host header")

\* httpProcessor.go:110-122 GetURLPath
GetURLPath(req) ==
    IF req.read # "nil" THEN Err(req.read)
    ELSE IF req.URL.parsed THEN Ok(req.URL.Path)
    ELSE Err("could not find URL path")

\* httpProcessor.go:62-69 IsRequestChunked
IsRequestChunked(req) == Len(req.TransferEncoding) > 0 /\ req.TransferEncoding[1] = Chunked

GetContentLengthOk_Always(req) == TRUE

\* httpProcessor.go:422-449 GetContentLength of a request: its second result
GetContentLengthOk(req) ==
    \/ IsRequestChunked(req)
    \/ Len(req.ContentLength) = 0
    \/ ParseIntOk(req.ContentLength[1])

\* remoteForward.go:380-381: the error of a connection its client has ended
ExpectedEnd(err) == err \in {"EOF", "use of closed network connection"}

BadRequest(text) == "HTTP/1.1 400 Bad Request\r\nContent-Type:text/html\r\n\r\n" \o text

\* remoteForward.go:387-399, 406-418
NoIdentifier == IF domainPath THEN BadRequest("Could not find a valid URL path.")
                ELSE BadRequest("Could not find a valid Host.")

\* return: the deferred httpConnection.Close() of remoteForward.go:355; the
\* locals of the handler end with it
Return ==
    /\ httpConnection' = [httpConnection EXCEPT !.state = "closed"]
    /\ httpPc' = "idle"
    /\ httpReq' = NoRequest
    /\ httpResult' = "none"
    /\ hadPreviousRequests' = FALSE
    /\ httpProcessor' = NoProcessor
    /\ remoteTCPConnectionClose' = FALSE

\* io.WriteString(httpConnection, text); httpConnection.Close(); return
Reject(text) ==
    /\ httpConnection' = [state |-> "closed", written |-> Append(httpConnection.written, text)]
    /\ httpPc' = "idle"
    /\ httpReq' = NoRequest
    /\ httpResult' = "none"
    /\ hadPreviousRequests' = FALSE
    /\ httpProcessor' = NoProcessor
    /\ remoteTCPConnectionClose' = FALSE

\* The --domain flag names a URL with a path: tunnel names are taken from the
\* URL path of the public requests.  Read once, before any connection.
PathDomain ==
    /\ Running
    /\ ~domainPath
    /\ \A s \in Sessions : connState[s] = "init"
    /\ domainPath' = TRUE
    /\ UNCHANGED <<proc, connState, mainPc, channelAlreadyHandled, channelLog, sessionHandlers,
                   scPc, requestHandled, execRequest, execRequestCompleted, gPc, fw,
                   reqPayload, connTunnelName, connReqPayload, connSshChannel,
                   sshTunnelListeners, sshTunnelListenersLock, forwards, listener, accPc,
                   fwdReply, httpPc, httpReq, httpResult, httpConnection, hadPreviousRequests,
                   httpProcessor, remoteTCPConnectionClose, wg, forwardedChannels, kaPc,
                   missingReplies, kaRead, kaRequests, cp, h, nameChecked, sessionRequests,
                   splice, acceptor>>

\* remoteForward.go:202-214, 352-356: the acceptor of an HTTP listener takes a
\* public connection and starts its handler
HttpAccept(l) ==
    /\ Running
    /\ listener[l].state = "open"
    /\ listener[l].http
    /\ httpPc = "idle"
    /\ httpPc' = "request"
    /\ httpReq' = [addr |-> listener[l].addr, name |-> << >>]
    /\ httpResult' = "none"
    /\ httpConnection' = [state |-> "open", written |-> << >>]
    /\ hadPreviousRequests' = FALSE
    /\ httpProcessor' = NoProcessor
    /\ remoteTCPConnectionClose' = FALSE
    /\ forwardedChannels' = [s \in Sessions |-> 0]
    /\ UNCHANGED <<proc, connState, mainPc, channelAlreadyHandled, channelLog, sessionHandlers,
                   scPc, requestHandled, execRequest, execRequestCompleted, gPc, fw,
                   reqPayload, connTunnelName, connReqPayload, connSshChannel,
                   sshTunnelListeners, sshTunnelListenersLock, forwards, listener, accPc,
                   fwdReply, domainPath, wg, kaPc, missingReplies, kaRead, kaRequests, cp, h,
                   nameChecked, sessionRequests, splice, acceptor>>

\* remoteForward.go:364-431: the top of the loop.  A processor is made for the
\* request, the headers are read, the tunnel name is taken from the host or
\* from the path, the Content-Length is looked at.
HttpRequest(req) ==
    LET ident == IF domainPath THEN GetURLPath(req) ELSE GetHost(req)
        found == IF domainPath THEN extractTunnelNameFromURLPath(ident.val, domainURIPath)
                 ELSE extractSubdomain(ident.val, domainURIHost)
    IN  /\ Running
        /\ httpPc = "request"
        /\ req.read = "nil" => httpProcessor.id < MaxRequests
        /\ IF ident.err # "nil" /\ hadPreviousRequests /\ ExpectedEnd(ident.err)
           THEN Return
           ELSE IF ident.err # "nil" \/ found.err # "nil"
           THEN Reject(NoIdentifier)
           ELSE IF ~GetContentLengthOk(req)
           THEN Reject(BadRequest("Invalid Content-Length header."))
           ELSE /\ httpProcessor' = [id |-> httpProcessor.id + 1, lastError |-> req.read]
                /\ httpReq' = [httpReq EXCEPT !.name = found.val]
                /\ hadPreviousRequests' = TRUE
                /\ httpPc' = "lookup"
                /\ UNCHANGED <<httpConnection, httpResult, remoteTCPConnectionClose>>
        /\ UNCHANGED <<proc, connState, mainPc, channelAlreadyHandled, channelLog,
                       sessionHandlers, scPc, requestHandled, execRequest,
                       execRequestCompleted, gPc, fw, reqPayload, connTunnelName,
                       connReqPayload, connSshChannel, sshTunnelListeners,
                       sshTunnelListenersLock, forwards, listener, accPc, fwdReply, domainPath,
                       wg, forwardedChannels, kaPc, missingReplies, kaRead, kaRequests, cp, h,
                       nameChecked, sessionRequests, splice, acceptor>>

\* remoteForward.go:433-452: look the tunnel up, with no mutex taken; 400 when
\* there is no tunnel or its descriptor has no forward payload
HttpLookup ==
    LET key == httpReq.addr \o httpReq.name
    IN  /\ Running
        /\ httpPc = "lookup"
        /\ IF ~Has(sshTunnelListeners, key)
           THEN Reject(BadRequest("No listeners found."))
           ELSE IF ~sshTunnelListeners[key].reqPayload
           THEN Reject(BadRequest("No SSH client found."))
           ELSE /\ httpResult' = sshTunnelListeners[key].conn
                /\ httpPc' = "open"
                /\ UNCHANGED <<httpConnection, httpReq, hadPreviousRequests, httpProcessor,
                               remoteTCPConnectionClose>>
        /\ UNCHANGED <<proc, connState, mainPc, channelAlreadyHandled, channelLog,
                       sessionHandlers, scPc, requestHandled, execRequest,
                       execRequestCompleted, gPc, fw, reqPayload, connTunnelName,
                       connReqPayload, connSshChannel, sshTunnelListeners,
                       sshTunnelListenersLock, forwards, listener, accPc, fwdReply, domainPath,
                       wg, forwardedChannels, kaPc, missingReplies, kaRead, kaRequests, cp, h,
                       nameChecked, sessionRequests, splice, acceptor>>

\* remoteForward.go:483-509: conn.OpenChannel("forwarded-tcpip") on the
\* connection of the descriptor; it fails on a connection that has ended.
\* On failure the public connection is closed with nothing written.
HttpOpenChannel(ok) ==
    /\ Running
    /\ httpPc = "open"
    /\ ok => connState[httpResult] = "open"
    /\ IF ok
       THEN /\ forwardedChannels' = [forwardedChannels EXCEPT ![httpResult] = @ + 1]
            /\ remoteTCPConnectionClose' = FALSE
            /\ wg' = {"request", "response"}
            /\ httpPc' = "splice"
            /\ UNCHANGED <<httpConnection, httpReq, httpResult, hadPreviousRequests,
                           httpProcessor>>
       ELSE /\ Return
            /\ UNCHANGED <<forwardedChannels, wg>>
    /\ UNCHANGED <<proc, connState, mainPc, channelAlreadyHandled, channelLog, sessionHandlers,
                   scPc, requestHandled, execRequest, execRequestCompleted, gPc, fw,
                   reqPayload, connTunnelName, connReqPayload, connSshChannel,
                   sshTunnelListeners, sshTunnelListenersLock, forwards, listener, accPc,
                   fwdReply, domainPath, kaPc, missingReplies, kaRead, kaRequests, cp, h,
                   nameChecked, sessionRequests, splice, acceptor>>

\* remoteForward.go:511-528: the task that copies the request to the channel
\* has finished
RequestCopied ==
    /\ Running
    /\ httpPc = "splice"
    /\ "request" \in wg
    /\ wg' = wg \ {"request"}
    /\ UNCHANGED <<proc, connState, mainPc, channelAlreadyHandled, channelLog, sessionHandlers,
                   scPc, requestHandled, execRequest, execRequestCompleted, gPc, fw,
                   reqPayload, connTunnelName, connReqPayload, connSshChannel,
                   sshTunnelListeners, sshTunnelListenersLock, forwards, listener, accPc,
                   fwdReply, httpPc, httpReq, httpResult, domainPath, httpConnection,
                   hadPreviousRequests, httpProcessor, remoteTCPConnectionClose,
                   forwardedChannels, kaPc, missingReplies, kaRead, kaRequests, cp, h,
                   nameChecked, sessionRequests, splice, acceptor>>

\* remoteForward.go:529-557, eofReader.go:11-17: the task that copies the
\* response to the public connection has finished; eof tells whether a read
\* of the channel returned io.EOF
ResponseCopied(eof) ==
    /\ Running
    /\ httpPc = "splice"
    /\ "response" \in wg
    /\ remoteTCPConnectionClose' = eof
    /\ wg' = wg \ {"response"}
    /\ UNCHANGED <<proc, connState, mainPc, channelAlreadyHandled, channelLog, sessionHandlers,
                   scPc, requestHandled, execRequest, execRequestCompleted, gPc, fw,
                   reqPayload, connTunnelName, connReqPayload, connSshChannel,
                   sshTunnelListeners, sshTunnelListenersLock, forwards, listener, accPc,
                   fwdReply, httpPc, httpReq, httpResult, domainPath, httpConnection,
                   hadPreviousRequests, httpProcessor, forwardedChannels, kaPc, missingReplies,
                   kaRead, kaRequests, cp, h, nameChecked, sessionRequests, splice, acceptor>>

NextRequestAwaited_Always(closed) == TRUE

\* remoteForward.go:562: the loop goes on
NextRequestAwaited(closed) == ~closed

\* remoteForward.go:558-568: wg.Wait() returns; the handler leaves when the
\* tenant's side was closed, else it closes the processor and loops
HttpRequestEnded ==
    /\ Running
    /\ httpPc = "splice"
    /\ wg = {}
    /\ IF NextRequestAwaited(remoteTCPConnectionClose)
       THEN /\ httpProcessor' = [httpProcessor EXCEPT !.lastError = "ErrUnexpectedEOF"]
            /\ httpPc' = "request"
            /\ UNCHANGED <<httpConnection, httpReq, httpResult, hadPreviousRequests,
                           remoteTCPConnectionClose>>
       ELSE Return
    /\ UNCHANGED <<proc, connState, mainPc, channelAlreadyHandled, channelLog, sessionHandlers,
                   scPc, requestHandled, execRequest, execRequestCompleted, gPc, fw,
                   reqPayload, connTunnelName, connReqPayload, connSshChannel,
                   sshTunnelListeners, sshTunnelListenersLock, forwards, listener, accPc,
                   fwdReply, domainPath, wg, forwardedChannels, kaPc, missingReplies, kaRead,
                   kaRequests, cp, h, nameChecked, sessionRequests, splice, acceptor>>

\* ------------------------------------------------------------------------
\* Keepalive of one connection (main.go:277-306)
\* ------------------------------------------------------------------------
\* missingReplies is written by the ticker goroutine and by the goroutines
\* that wait for the replies, with no synchronisation: the increment of line
\* 294 is a read and a later write.

\* main.go:286: the ticker goroutine gives the connection up
KeepaliveGivesUp(missing) == missing >= clientKeepaliveMaxCount

\* main.go:285-294: a tick.  The connection is closed, or the counter is read
\* for the increment.
KeepaliveTick ==
    /\ kaPc = "wait"
    /\ IF KeepaliveGivesUp(missingReplies)
       THEN /\ kaPc' = "closed"
            /\ UNCHANGED kaRead
       ELSE /\ Len(kaRequests) < MaxTicks
            /\ kaRead' = missingReplies
            /\ kaPc' = "count"
    /\ UNCHANGED <<proc, connState, mainPc, channelAlreadyHandled, channelLog, sessionHandlers,
                   scPc, requestHandled, execRequest, execRequestCompleted, gPc, fw,
                   reqPayload, connTunnelName, connReqPayload, connSshChannel,
                   sshTunnelListeners, sshTunnelListenersLock, forwards, listener, accPc,
                   fwdReply, httpPc, httpReq, httpResult, domainPath, httpConnection,
                   hadPreviousRequests, httpProcessor, remoteTCPConnectionClose, wg,
                   forwardedChannels, missingReplies, kaRequests, cp, h, nameChecked,
                   sessionRequests, splice, acceptor>>

\* main.go:294-302: the incremented counter is written and the keepalive
\* request is sent by a goroutine of its own
KeepaliveCount ==
    /\ kaPc = "count"
    /\ missingReplies' = kaRead + 1
    /\ kaRequests' = Append(kaRequests, "pending")
    /\ kaRead' = 0
    /\ kaPc' = "wait"
    /\ UNCHANGED <<proc, connState, mainPc, channelAlreadyHandled, channelLog, sessionHandlers,
                   scPc, requestHandled, execRequest, execRequestCompleted, gPc, fw,
                   reqPayload, connTunnelName, connReqPayload, connSshChannel,
                   sshTunnelListeners, sshTunnelListenersLock, forwards, listener, accPc,
                   fwdReply, httpPc, httpReq, httpResult, domainPath, httpConnection,
                   hadPreviousRequests, httpProcessor, remoteTCPConnectionClose, wg,
                   forwardedChannels, cp, h, nameChecked, sessionRequests, splice, acceptor>>

\* main.go:297-301: the reply to keepalive k arrives, the counter is reset
KeepaliveReply(k) ==
    /\ kaPc # "closed"
    /\ kaRequests[k] = "pending"
    /\ kaRequests' = [kaRequests EXCEPT ![k] = "answered"]
    /\ missingReplies' = 0
    /\ UNCHANGED <<proc, connState, mainPc, channelAlreadyHandled, channelLog, sessionHandlers,
                   scPc, requestHandled, execRequest, execRequestCompleted, gPc, fw,
                   reqPayload, connTunnelName, connReqPayload, connSshChannel,
                   sshTunnelListeners, sshTunnelListenersLock, forwards, listener, accPc,
                   fwdReply, httpPc, httpReq, httpResult, domainPath, httpConnection,
                   hadPreviousRequests, httpProcessor, remoteTCPConnectionClose, wg,
                   forwardedChannels, kaPc, kaRead, cp, h, nameChecked, sessionRequests,
                   splice, acceptor>>

\* main.go:297-298: SendRequest returns an error once the connection is closed
KeepaliveFails(k) ==
    /\ kaPc = "closed"
    /\ kaRequests[k] = "pending"
    /\ kaRequests' = [kaRequests EXCEPT ![k] = "failed"]
    /\ UNCHANGED <<proc, connState, mainPc, channelAlreadyHandled, channelLog, sessionHandlers,
                   scPc, requestHandled, execRequest, execRequestCompleted, gPc, fw,
                   reqPayload, connTunnelName, connReqPayload, connSshChannel,
                   sshTunnelListeners, sshTunnelListenersLock, forwards, listener, accPc,
                   fwdReply, httpPc, httpReq, httpResult, domainPath, httpConnection,
                   hadPreviousRequests, httpProcessor, remoteTCPConnectionClose, wg,
                   forwardedChannels, kaPc, missingReplies, kaRead, cp, h, nameChecked,
                   sessionRequests, splice, acceptor>>

\* ------------------------------------------------------------------------
\* Shutdown (main.go:197-218)
\* ------------------------------------------------------------------------
\* The listeners of the forwards table and the connections of the tunnel
\* table are closed and the process exits: nothing of its state is left.
Shutdown ==
    /\ Running
    /\ sshTunnelListenersLock = NoHolder
    /\ proc' = "shutdown"
    /\ connState' = [s \in Sessions |-> "init"]
    /\ mainPc' = [s \in Sessions |-> "none"]
    /\ channelAlreadyHandled' = [s \in Sessions |-> FALSE]
    /\ channelLog' = [s \in Sessions |-> << >>]
    /\ sessionHandlers' = [s \in Sessions |-> 0]
    /\ scPc' = [s \in Sessions |-> "none"]
    /\ requestHandled' = [s \in Sessions |-> FALSE]
    /\ sessionRequests' = [s \in Sessions |-> << >>]
    /\ execRequest' = [s \in Sessions |-> EmptyCommand]
    /\ execRequestCompleted' = [s \in Sessions |-> "open"]
    /\ gPc' = [s \in Sessions |-> "none"]
    /\ fw' = [s \in Sessions |-> NoLocals]
    /\ reqPayload' = [s \in Sessions |-> NoPayload]
    /\ connTunnelName' = [s \in Sessions |-> Nil]
    /\ connReqPayload' = [s \in Sessions |-> FALSE]
    /\ connSshChannel' = [s \in Sessions |-> FALSE]
    /\ sshTunnelListeners' = << >>
    /\ forwards' = << >>
    /\ listener' = [s \in Sessions |-> NoListener]
    /\ accPc' = [s \in Sessions |-> "none"]
    /\ fwdReply' = [s \in Sessions |-> NoReply]
    /\ httpPc' = "idle"
    /\ httpReq' = NoRequest
    /\ httpResult' = "none"
    /\ httpConnection' = NoConnection
    /\ hadPreviousRequests' = FALSE
    /\ httpProcessor' = NoProcessor
    /\ remoteTCPConnectionClose' = FALSE
    /\ wg' = {}
    /\ forwardedChannels' = [s \in Sessions |-> 0]
    /\ UNCHANGED <<sshTunnelListenersLock, domainPath, kaPc, missingReplies, kaRead, kaRequests, cp, h,
                 nameChecked, splice, acceptor>>

\* ------------------------------------------------------------------------
\* Specifications.  Each one fixes which clients connect and what they ask
\* for; the handlers are the same in all of them.
\* ------------------------------------------------------------------------
\* What every connection does whatever its client asked for
Handlers(s) ==
    \/ Connect(s)
    \/ Disconnect(s)
    \/ SessionAccept(s)
    \/ ExecRendezvous(s)
    \/ ExecSendOnClosed(s)
    \/ SessionLoopEnds(s)
    \/ ForwardWakesOnClose(s)
    \/ GlobalLoopEnds(s)
    \/ Teardown(s)
    \/ TeardownClose(s)

HttpHandlers(s) ==
    \/ HttpAcquire(s)
    \/ HttpInsert(s)
    \/ HttpListener(s)

TcpHandlers(s) ==
    \/ TcpForward(s)
    \/ AcceptorExit(s)

\* Two clients that ask for HTTP tunnels, each opening one session channel
HttpClients == {"s1", "s2"}
HttpCommands == {[id |-> "a", tunnelname |-> NameABC, type |-> "http"],
                 [id |-> "", tunnelname |-> NameABC, type |-> "http"],
                 [id |-> "", tunnelname |-> NameInvalid, type |-> "http"]}
HttpPayloads == [BindAddr : BindAddrs, BindPort : HttpPorts]

NextHttp ==
    \/ \E s \in HttpClients : Handlers(s)
    \/ \E s \in HttpClients : HttpHandlers(s)
    \/ \E s \in HttpClients : channelLog[s] = << >> /\ NewChannel(s, "session")
    \/ \E s \in HttpClients, c \in HttpCommands : ExecRequest(s, c)
    \/ \E s \in HttpClients, p \in HttpPayloads : ForwardRequest(s, p)
    \/ \E s \in HttpClients, p \in HttpPayloads : CancelRequest(s, p)
    \/ \E s \in HttpClients : CancelTcpClose(s)
    \/ Shutdown

SpecHttp == Init /\ [][NextHttp]_vars

\* Two clients that ask for TCP tunnels, each opening one session channel
TcpClients == {"s1", "s2"}
TcpCommands == {EmptyCommand, [id |-> "a", tunnelname |-> << >>, type |-> "tcp"]}
TcpPayloads == [BindAddr : BindAddrs, BindPort : TcpPorts]
TcpCancels == [BindAddr : BindAddrs, BindPort : {firstScanPort}]

NextTcp ==
    \/ \E s \in TcpClients : Handlers(s)
    \/ \E s \in TcpClients : TcpHandlers(s)
    \/ \E s \in TcpClients : channelLog[s] = << >> /\ NewChannel(s, "session")
    \/ \E s \in TcpClients, c \in TcpCommands : ExecRequest(s, c)
    \/ \E s \in TcpClients, p \in TcpPayloads : ForwardRequest(s, p)
    \/ \E s \in TcpClients, p \in TcpCancels : CancelRequest(s, p)
    \/ \E s \in TcpClients : CancelTcpClose(s)

SpecTcp == Init /\ [][NextTcp]_vars

\* One client that asks for anything, in any order
NextOne ==
    \/ Handlers("s1")
    \/ HttpHandlers("s1")
    \/ TcpHandlers("s1")
    \/ \E t \in ChannelTypes : NewChannel("s1", t)
    \/ \E c \in Commands : ExecRequest("s1", c)
    \/ \E p \in ForwardPayloads : ForwardRequest("s1", p)
    \/ ForwardMalformed("s1")
    \/ \E p \in CancelPayloads : CancelRequest("s1", p)
    \/ CancelTcpClose("s1")
    \/ Shutdown

SpecOne == Init /\ [][NextOne]_vars

\* One client that sends any requests on its session channel, in any order
RequestTypes == {"exec", "env", "shell"}

NextExec ==
    \/ Handlers("s1")
    \/ TcpHandlers("s1")
    \/ channelLog["s1"] = << >> /\ NewChannel("s1", "session")
    \/ \E c \in TcpCommands : ExecRequest("s1", c)
    \/ ExecMalformed("s1")
    \/ \E type \in RequestTypes : ChannelRequestRefused("s1", type)
    \/ \E p \in TcpPayloads : ForwardRequest("s1", p)

SpecExec == Init /\ [][NextExec]_vars

\* Three clients that stay connected and ask for TCP ports the server chooses
PortCommands == {EmptyCommand}
PortPayloads == [BindAddr : BindAddrs, BindPort : {0}]

NextPorts ==
    \/ \E s \in Sessions : Connect(s)
    \/ \E s \in Sessions : channelLog[s] = << >> /\ NewChannel(s, "session")
    \/ \E s \in Sessions : SessionAccept(s)
    \/ \E s \in Sessions, c \in PortCommands : ExecRequest(s, c)
    \/ \E s \in Sessions, p \in PortPayloads : ForwardRequest(s, p)
    \/ \E s \in Sessions : ExecRendezvous(s)
    \/ \E s \in Sessions : TcpHandlers(s)
    \/ \E s \in Sessions, p \in TcpCancels : CancelRequest(s, p)
    \/ \E s \in Sessions : CancelTcpClose(s)

SpecPorts == Init /\ [][NextPorts]_vars

\* Two clients with HTTP tunnels on the HTTP port, and the public connections
\* to the shared listener
LookupCommands == {[id |-> "", tunnelname |-> NameABC, type |-> "http"]}
LookupPayloads == [BindAddr : BindAddrs, BindPort : {httpBindPort}]

NextLookup ==
    \/ \E s \in HttpClients : Handlers(s)
    \/ \E s \in HttpClients : HttpHandlers(s)
    \/ \E s \in HttpClients : channelLog[s] = << >> /\ NewChannel(s, "session")
    \/ \E s \in HttpClients, c \in LookupCommands : ExecRequest(s, c)
    \/ \E s \in HttpClients, p \in LookupPayloads : ForwardRequest(s, p)
    \/ \E s \in HttpClients, p \in LookupPayloads : CancelRequest(s, p)
    \/ \E l \in HttpClients : HttpAccept(l)
    \/ \E req \in PlainRequests : HttpRequest(req)
    \/ HttpLookup
    \/ \E ok \in BOOLEAN : HttpOpenChannel(ok)
    \/ RequestCopied
    \/ \E eof \in BOOLEAN : ResponseCopied(eof)
    \/ HttpRequestEnded

SpecLookup == Init /\ [][NextLookup]_vars

\* A client with an HTTP tunnel on the HTTP port, and public connections
\* whose requests are well-formed or not, in host mode or in path mode
PublicClients == {"s1"}

NextPublic ==
    \/ PathDomain
    \/ \E s \in PublicClients : Handlers(s)
    \/ \E s \in PublicClients : HttpHandlers(s)
    \/ \E s \in PublicClients : channelLog[s] = << >> /\ NewChannel(s, "session")
    \/ \E s \in PublicClients, c \in HttpCommands : ExecRequest(s, c)
    \/ \E s \in PublicClients, p \in LookupPayloads : ForwardRequest(s, p)
    \/ \E s \in PublicClients, p \in LookupPayloads : CancelRequest(s, p)
    \/ \E l \in PublicClients : HttpAccept(l)
    \/ \E req \in PublicRequests : HttpRequest(req)
    \/ HttpLookup
    \/ \E ok \in BOOLEAN : HttpOpenChannel(ok)
    \/ RequestCopied
    \/ \E eof \in BOOLEAN : ResponseCopied(eof)
    \/ HttpRequestEnded

SpecPublic == Init /\ [][NextPublic]_vars

\* The keepalive of one connection
NextKeepalive ==
    \/ KeepaliveTick
    \/ KeepaliveCount
    \/ \E k \in 1..MaxTicks : k <= Len(kaRequests) /\ KeepaliveReply(k)
    \/ \E k \in 1..MaxTicks : k <= Len(kaRequests) /\ KeepaliveFails(k)

SpecKeepalive == Init /\ [][NextKeepalive]_vars

TypeOK ==
    /\ proc \in {"running", "shutdown", "fatal", "panic"}
    /\ \A s \in Sessions : sessionHandlers[s] \in 0..MaxChannelOpens

\* ------------------------------------------------------------------------
\* Properties of the tunnel registry (checked under SpecHttp)
\* ------------------------------------------------------------------------

\* C1 (same-client reclaim): when a forward handler inserts the descriptor of
\* an HTTP tunnel whose requested name is valid and has no entry, or has an
\* entry carrying the caller's client id, the caller is granted exactly the
\* requested name and the entry then carries the caller's session id.
C1_SameClientReclaim ==
    [][\A s \in Sessions :
          LET name == execRequest[s].tunnelname
              key == JoinHostPort(reqPayload[s].BindAddr, Itoa(reqPayload[s].BindPort)) \o name
          IN  (/\ gPc[s] = "httpInsert"
               /\ gPc'[s] = "listenerLock"
               /\ tunnelNameValid(name)
               /\ Has(sshTunnelListeners, key) =>
                     sshTunnelListeners[key].clientID = EffectiveClientID(s, execRequest[s].id))
              => /\ connTunnelName'[s] = name
                 /\ Has(sshTunnelListeners', key)
                 /\ sshTunnelListeners'[key].sessionID = SessionID(s)]_vars

\* Two sessions of client "a" were both granted the name abc on one address;
\* the entry carries the session id of the one that came second.
C1_Reclaimed ==
    \E s \in Sessions, t \in Sessions :
        LET key == JoinHostPort(reqPayload[s].BindAddr, Itoa(reqPayload[s].BindPort)) \o NameABC
        IN  /\ s # t
            /\ execRequest[s].id = "a"
            /\ execRequest[t].id = "a"
            /\ connTunnelName[s] = NameABC
            /\ connTunnelName[t] = NameABC
            /\ reqPayload[s] = reqPayload[t]
            /\ connState[t] = "open"
            /\ fwdReply[s].ok
            /\ fwdReply[t].ok
            /\ Has(sshTunnelListeners, key)
            /\ sshTunnelListeners[key].sessionID = SessionID(s)

\* C2 (no takeover by another client): no step replaces an entry of the HTTP
\* tunnel table by one of a different client id; a caller whose requested name
\* has an entry of a different client is granted another name, one that had no
\* entry when it was inserted, and the other client's descriptor is unchanged.
C2_NoTakeover ==
    [][proc' = "running" =>
          /\ \A k \in DOMAIN sshTunnelListeners :
                (Has(sshTunnelListeners', k) /\ sshTunnelListeners'[k] # sshTunnelListeners[k])
                => sshTunnelListeners'[k].clientID = sshTunnelListeners[k].clientID
          /\ \A s \in Sessions :
                LET name == execRequest[s].tunnelname
                    addr == JoinHostPort(reqPayload[s].BindAddr, Itoa(reqPayload[s].BindPort))
                    key == addr \o name
                IN  (/\ gPc[s] = "httpInsert"
                     /\ gPc'[s] = "listenerLock"
                     /\ Has(sshTunnelListeners, key)
                     /\ sshTunnelListeners[key].clientID # EffectiveClientID(s, execRequest[s].id))
                    => /\ connTunnelName'[s] # name
                       /\ ~Has(sshTunnelListeners, addr \o connTunnelName'[s])
                       /\ Has(sshTunnelListeners', addr \o connTunnelName'[s])
                       /\ sshTunnelListeners'[addr \o connTunnelName'[s]].sessionID = SessionID(s)
                       /\ sshTunnelListeners'[key] = sshTunnelListeners[key]]_vars

\* A session asked for the name abc that client "a" holds, under another
\* client id, and holds a generated name; the entry of client "a" is there.
C2_OtherNameGranted ==
    \E s \in Sessions, t \in Sessions :
        LET addr == JoinHostPort(reqPayload[s].BindAddr, Itoa(reqPayload[s].BindPort))
        IN  /\ s # t
            /\ execRequest[s].tunnelname = NameABC
            /\ execRequest[s].id = ""
            /\ connTunnelName[s] \notin {Nil, NameABC}
            /\ Has(sshTunnelListeners, addr \o connTunnelName[s])
            /\ sshTunnelListeners[addr \o connTunnelName[s]].sessionID = SessionID(s)
            /\ Has(sshTunnelListeners, addr \o NameABC)
            /\ sshTunnelListeners[addr \o NameABC].sessionID = SessionID(t)
            /\ sshTunnelListeners[addr \o NameABC].clientID = "a"

\* C3 (registry lookups are atomic): every read of the HTTP tunnel table, the
\* lookup of a public connection included, is made holding the table's mutex:
\* no lookup is made while a forward handler holds the mutex for its insert.
\* Checked under SpecLookup.
C3_LookupHoldsMutex ==
    [][(httpPc = "lookup" /\ httpPc' # "lookup") => sshTunnelListenersLock = NoHolder]_vars

\* C4 (release deletes only on session match): once session s2 has reclaimed
\* the TCP port of session s1 of the same client, then as long as s2 is
\* connected and has not cancelled the forward itself, the registry entry of
\* the port is in place and carries s2's session id, whatever s1 does (its
\* teardown, its cancel-tcpip-forward).  Checked under SpecTcp.
C4_ReleaseOnlyOnSessionMatch ==
    \A s1 \in Sessions, s2 \in Sessions :
        (/\ s1 # s2
         /\ listener[s1].closer = <<"takeover", s2>>
         /\ listener[s2].state # "none"
         /\ listener[s2].closer # <<"cancel", s2>>
         /\ connState[s2] = "open")
        => /\ Has(forwards, listener[s2].addr)
           /\ forwards[listener[s2].addr].sessionID = SessionID(s2)

\* C5 (release on session end): once a session has ended and its handlers
\* have finished, no entry of the HTTP tunnel table and no entry of the
\* forwards table carries its session id.  Checked under SpecHttp.
C5_NoEntryAfterSessionEnd ==
    \A s \in Sessions :
        (/\ mainPc[s] = "done"
         /\ gPc[s] = "done"
         /\ scPc[s] \in {"none", "done"}
         /\ accPc[s] \in {"none", "done"})
        => /\ \A k \in DOMAIN sshTunnelListeners :
                 sshTunnelListeners[k].sessionID # SessionID(s)
           /\ \A k \in DOMAIN forwards : forwards[k].sessionID # SessionID(s)

\* C6 (the shared HTTP listener outlives sessions): while the process runs, no
\* step removes the HTTP entry of the forwards table or closes its listener,
\* for any bind port and any tunnel type.  Checked under SpecHttp.
C6_HttpListenerStays ==
    [][proc' = "running" =>
          \A k \in DOMAIN forwards :
              forwards[k].conType = "http"
              => /\ Has(forwards', k)
                 /\ forwards'[k] = forwards[k]
                 /\ listener'[forwards[k].listener].state = "open"]_vars

\* ------------------------------------------------------------------------
\* Properties of one connection (checked under SpecOne)
\* ------------------------------------------------------------------------

\* C7 (rendezvous ordering): a tcpip-forward is not processed (no step of its
\* registration, no registry entry, no listener bound, no success reply)
\* before the session's exec request has handed over its command.
C7_ForwardAfterExec ==
    \A s \in Sessions :
        (\/ gPc[s] \in {"httpLock", "httpInsert", "listenerLock", "tcpLock"}
         \/ \E k \in DOMAIN sshTunnelListeners : sshTunnelListeners[k].sessionID = SessionID(s)
         \/ \E k \in DOMAIN forwards : forwards[k].listener = s
         \/ listener[s].state # "none"
         \/ (fwdReply[s].sent /\ fwdReply[s].ok))
        => /\ requestHandled[s]
           /\ scPc[s] \in {"loop", "done"}

\* The forward of session s1 was answered with success, its listener is bound
\* and registered.
C7_ForwardProcessed ==
    /\ requestHandled["s1"]
    /\ fwdReply["s1"].sent
    /\ fwdReply["s1"].ok
    /\ listener["s1"].state = "open"
    /\ Has(forwards, listener["s1"].addr)

\* C8 (one session channel per connection): at most one session channel
\* handler is started per connection; the first channel of type session is
\* accepted, every further session channel and every channel of another type
\* is rejected with UnknownChannelType.
C8_OneSessionChannel ==
    \A s \in Sessions :
        /\ sessionHandlers[s] <= 1
        /\ \A i \in 1..Len(channelLog[s]) :
              LET first == /\ channelLog[s][i].type = "session"
                           /\ \A j \in 1..(i - 1) : channelLog[s][j].type # "session"
              IN  channelLog[s][i].reply = IF first THEN "accept" ELSE "UnknownChannelType"

\* Session s1 opened a session channel, then a second one and a channel of
\* another type: the last two were rejected.
C8_SecondChannelRejected ==
    /\ Len(channelLog["s1"]) = 3
    /\ channelLog["s1"][1] = [type |-> "session", reply |-> "accept"]
    /\ channelLog["s1"][2] = [type |-> "session", reply |-> "UnknownChannelType"]
    /\ channelLog["s1"][3] = [type |-> "x11", reply |-> "UnknownChannelType"]
    /\ sessionHandlers["s1"] = 1

\* ------------------------------------------------------------------------
\* Keepalive (checked under SpecKeepalive)
\* ------------------------------------------------------------------------

\* C9 (keepalive close threshold): at a tick the keepalive closes the
\* connection exactly when the two keepalive requests sent last are both
\* unanswered.
C9_ClosesExactlyOnTwoMissing ==
    [][(kaPc = "wait" /\ kaPc' # "wait") =>
          LET n == Len(kaRequests)
              unanswered == /\ n >= clientKeepaliveMaxCount
                            /\ \A i \in (n - clientKeepaliveMaxCount + 1)..n :
                                  kaRequests[i] = "pending"
          IN  (kaPc' = "closed") <=> unanswered]_vars

\* ------------------------------------------------------------------------
\* Port allocation (checked under SpecPorts)
\* ------------------------------------------------------------------------

\* C10 (port-0 allocation): when a TCP forward asks for port 0, the port the
\* handler chooses is the lowest port from firstScanPort to MaxPort without an
\* entry for the bind address, never one outside that range; on success it is
\* the port bound, registered and reported.
C10_LowestFreePort ==
    [][\A s \in Sessions :
          (gPc[s] = "tcpLock" /\ gPc'[s] = "idle" /\ reqPayload[s].BindPort = 0) =>
             LET chosen == reqPayload'[s].BindPort
                 addrOf(p) == JoinHostPort(reqPayload[s].BindAddr, Itoa(p))
             IN  /\ chosen \in firstScanPort..MaxPort
                 /\ ~Has(forwards, addrOf(chosen))
                 /\ \A q \in firstScanPort..(chosen - 1) : Has(forwards, addrOf(q))
                 /\ fwdReply'[s].ok =>
                       /\ fwdReply'[s].port = chosen
                       /\ listener'[s].state = "open"
                       /\ listener'[s].port = chosen
                       /\ Has(forwards', addrOf(chosen))
                       /\ forwards'[addrOf(chosen)].sessionID = SessionID(s)]_vars

\* ------------------------------------------------------------------------
\* Properties of the TCP forwards table (checked under SpecTcp)
\* ------------------------------------------------------------------------

\* C11 (TCP port of another client): a TCP forward for a port whose entry
\* carries a different client id is answered negatively, with "TCP port is
\* already taken." on the session channel, and changes neither the forwards
\* table nor any listener; the teardown of a session whose forward was
\* refused changes neither of them either.
C11_OtherClientsPortRefused ==
    [][\A s \in Sessions :
          /\ (/\ gPc[s] = "tcpLock"
              /\ gPc'[s] = "idle"
              /\ Has(forwards, fw[s].addr)
              /\ reqPayload[s].BindPort # 0
              /\ forwards[fw[s].addr].clientID # fw[s].clientID)
             => /\ fwdReply'[s] = [ok |-> FALSE, port |-> 0, sent |-> TRUE,
                                   msg |-> "TCP port is already taken."]
                /\ forwards' = forwards
                /\ listener' = listener
          /\ (/\ mainPc[s] = "loop"
              /\ mainPc'[s] = "teardownClose"
              /\ fwdReply[s].msg = "TCP port is already taken.")
             => /\ forwards' = forwards
                /\ listener' = listener]_vars

\* A session was refused a port that another client holds and has ended; the
\* owner's entry is registered and its listener open.
C11_RefusedAndEnded ==
    \E s \in Sessions, t \in Sessions :
        LET addr == JoinHostPort(reqPayload[s].BindAddr, Itoa(reqPayload[s].BindPort))
        IN  /\ s # t
            /\ fwdReply[s].msg = "TCP port is already taken."
            /\ mainPc[s] = "done"
            /\ Has(forwards, addr)
            /\ forwards[addr].sessionID = SessionID(t)
            /\ forwards[addr].clientID # EffectiveClientID(s, execRequest[s].id)
            /\ listener[t].state = "open"
            /\ listener[t].addr = addr

\* C12 (TCP same-client takeover): a TCP forward for a port whose entry
\* carries the caller's client id closes the old listener and, when the new
\* bind succeeds, replaces the entry by one with a new open listener and the
\* caller's session id; afterwards neither the exit of an acceptor nor the
\* teardown of a session removes an entry of another session or closes its
\* listener.
C12_SameClientTakeover ==
    [][\A s \in Sessions :
          /\ (/\ gPc[s] = "tcpLock"
              /\ gPc'[s] = "idle"
              /\ reqPayload[s].BindPort # 0
              /\ Has(forwards, fw[s].addr)
              /\ forwards[fw[s].addr].clientID = fw[s].clientID)
             => LET old == forwards[fw[s].addr].listener
                IN  /\ old # s => listener'[old].state = "closed"
                    /\ fwdReply'[s].ok =>
                          /\ forwards'[fw[s].addr].sessionID = SessionID(s)
                          /\ forwards'[fw[s].addr].listener = s
                          /\ listener'[s].state = "open"
                          /\ listener'[s].addr = fw[s].addr
          /\ (\/ (accPc[s] = "accept" /\ accPc'[s] = "done")
              \/ (mainPc[s] = "loop" /\ mainPc'[s] = "teardownClose"))
             => \A k \in DOMAIN forwards :
                   forwards[k].sessionID # SessionID(s)
                   => /\ Has(forwards', k)
                      /\ forwards'[k] = forwards[k]
                      /\ listener'[forwards[k].listener] = listener[forwards[k].listener]]_vars

\* Session s took the port of session t of the same client over; t's acceptor
\* has left and t has ended; the entry carries s's session id and s's
\* listener is open.
C12_TakenOverAndOldGone ==
    \E s \in Sessions, t \in Sessions :
        /\ s # t
        /\ listener[t].closer = <<"takeover", s>>
        /\ accPc[t] = "done"
        /\ mainPc[t] = "done"
        /\ Has(forwards, listener[s].addr)
        /\ forwards[listener[s].addr].sessionID = SessionID(s)
        /\ listener[s].state = "open"

\* ------------------------------------------------------------------------
\* Properties of the public HTTP connections (checked under SpecPublic)
\* ------------------------------------------------------------------------

\* The five literal responses of remoteForward.go:390-448
C13_Literal400 ==
    {"HTTP/1.1 400 Bad Request\r\nContent-Type:text/html\r\n\r\nCould not find a valid URL path.",
     "HTTP/1.1 400 Bad Request\r\nContent-Type:text/html\r\n\r\nCould not find a valid Host.",
     "HTTP/1.1 400 Bad Request\r\nContent-Type:text/html\r\n\r\nInvalid Content-Length header.",
     "HTTP/1.1 400 Bad Request\r\nContent-Type:text/html\r\n\r\nNo listeners found.",
     "HTTP/1.1 400 Bad Request\r\nContent-Type:text/html\r\n\r\nNo SSH client found."}

\* The step writes one literal 400 to the public connection, closes it, ends
\* the handler, and opens no forwarded-tcpip channel
C13_Rejects ==
    /\ \E text \in C13_Literal400 :
          httpConnection'.written = Append(httpConnection.written, text)
    /\ httpConnection'.state = "closed"
    /\ httpPc' = "idle"
    /\ forwardedChannels' = forwardedChannels

\* The request carries bytes (it is not the end of the connection) and no
\* tunnel name can be taken from its Host, or from its path in path mode
C13_NoValidHostOrPath(req) ==
    /\ ~ExpectedEnd(req.read)
    /\ IF domainPath
       THEN \/ req.read # "nil"
            \/ ~req.URL.parsed
            \/ extractTunnelNameFromURLPath(req.URL.Path, domainURIPath).err # "nil"
       ELSE \/ req.read # "nil"
            \/ GetHost(req).err # "nil"
            \/ extractSubdomain(GetHost(req).val, domainURIHost).err # "nil"

C13_UnparseableContentLength(req) ==
    /\ req.read = "nil"
    /\ Len(req.ContentLength) > 0
    /\ ~ParseIntOk(req.ContentLength[1])

\* The lookup step of a request whose tunnel name has no entry, or whose
\* descriptor has no forward payload
C13_LookupFails ==
    /\ httpPc = "lookup"
    /\ httpPc' # "lookup"
    /\ \/ ~Has(sshTunnelListeners, httpReq.addr \o httpReq.name)
       \/ ~sshTunnelListeners[httpReq.addr \o httpReq.name].reqPayload

\* A forwarded-tcpip channel is opened only by the step that follows a
\* successful lookup, on the connection the lookup found
C13_OnlyAfterLookup ==
    \A s \in Sessions :
        forwardedChannels'[s] > forwardedChannels[s] => httpPc = "open" /\ httpResult = s

\* C13 (a rejected public request never reaches a tenant), as stated: a public
\* request with a missing or invalid Host or path, an unparseable
\* Content-Length, a tunnel name with no entry or a descriptor without forward
\* payload is answered with a literal 400, the public connection is closed,
\* the handler stops and no forwarded-tcpip channel is opened.
C13_RejectedGets400 ==
    [][proc' = "running" =>
          /\ \A req \in PublicRequests :
                (/\ HttpRequest(req)
                 /\ C13_NoValidHostOrPath(req) \/ C13_UnparseableContentLength(req))
                => C13_Rejects
          /\ C13_LookupFails => C13_Rejects
          /\ C13_OnlyAfterLookup]_vars

\* C13, amended: the same, where the unparseable Content-Length is that of a
\* request that is not chunked (a Transfer-Encoding: chunked request is
\* forwarded whatever its Content-Length holds).
C13_RejectedUnlessChunked ==
    [][proc' = "running" =>
          /\ \A req \in PublicRequests :
                (/\ HttpRequest(req)
                 /\ \/ C13_NoValidHostOrPath(req)
                    \/ C13_UnparseableContentLength(req) /\ ~IsRequestChunked(req))
                => C13_Rejects
          /\ C13_LookupFails => C13_Rejects
          /\ C13_OnlyAfterLookup]_vars

\* The second request of a keep-alive public connection was refused for its
\* Content-Length after the first had been forwarded to session s1: one
\* channel was opened, the 400 is written, the connection is closed.
C13_SecondRequestRefused ==
    /\ httpConnection.state = "closed"
    /\ httpConnection.written =
          <<"HTTP/1.1 400 Bad Request\r\nContent-Type:text/html\r\n\r\nInvalid Content-Length header.">>
    /\ forwardedChannels["s1"] = 1
    /\ forwardedChannels["s2"] = 0
    /\ httpPc = "idle"

\* C14 (keep-alive of the public connection): the handler goes on only when
\* both splicing tasks have finished; then, if the tenant-side reader saw EOF
\* the public connection is closed and the handler ends, so that no further
\* request is read from it; otherwise the connection stays open and the
\* handler waits for the next request, for which a new processor is made.
C14_CloseOnTenantEof ==
    [][proc' = "running" =>
          /\ (httpPc = "splice" /\ httpPc' # "splice") =>
                /\ wg = {}
                /\ IF remoteTCPConnectionClose
                   THEN /\ httpConnection'.state = "closed"
                        /\ httpPc' = "idle"
                   ELSE /\ httpConnection' = httpConnection
                        /\ httpConnection.state = "open"
                        /\ httpPc' = "request"
          /\ (httpPc = "request" /\ httpPc' = "lookup") =>
                /\ httpProcessor'.id = httpProcessor.id + 1
                /\ httpProcessor'.lastError = "nil"
          /\ httpPc' # "idle" => httpConnection'.state = "open"]_vars

\* A public connection carried two requests to session s1: the first ended
\* with the tenant's side open, the second ended on the tenant's EOF and the
\* public connection was closed with nothing written by the handler.
C14_SecondRequestThenClosed ==
    /\ forwardedChannels["s1"] = 2
    /\ httpConnection = [state |-> "closed", written |-> << >>]
    /\ httpPc = "idle"

\* ------------------------------------------------------------------------
\* The chunked reader: a chunkedReader over a bufio.Reader over a source whose
\* bytes arrive in segments.  Bytes are one-character strings; positions are
\* counted from 0 as in the source, sequences from 1.
\* ------------------------------------------------------------------------

\* the size of the bufio.Reader's buffer (4096 in the program, 16 in the tests)
BufioSize == 16
\* into how many segments, less one, the source's bytes are cut
MaxCuts == 2
\* the lengths of the caller's buffer
ReadSizes == {1, 3, 32}

maxLineLength == BufioSize

\* valid chunked payloads
ChunkedPayloads ==
    {<<"0", "\r", "\n", "\r", "\n">>,
     <<"1", "\r", "\n", "a", "\r", "\n", "0", "\r", "\n", "\r", "\n">>,
     <<"0", ";", "x", "\r", "\n", "\r", "\n">>,
     <<"1", ";", "x", "\r", "\n", "a", "\r", "\n", "0", "\r", "\n", "\r", "\n">>,
     <<"3", "\r", "\n", "0", "\r", "\n", "\r", "\n", "0", "\r", "\n", "\r", "\n">>,
     <<"1", "1", "\r", "\n", "a", "b", "c", "d", "e", "f", "g", "h", "i", "j", "k", "l", "m", "n", "o", "p", "q", "\r", "\n", "0", "\r", "\n", "\r", "\n">>}

\* the strict prefixes of the valid payloads
TruncatedPayloads ==
    UNION {{SubSeq(P, 1, n) : n \in 0..(Len(P) - 1)} : P \in ChunkedPayloads} \ ChunkedPayloads

\* a valid payload with a chunk longer than the bufio buffer: 27 bytes, then
\* xyz, abc and the last chunk
LongPayload ==
    <<"1", "b", "\r", "\n", "a", "b", "c", "d", "e", "f", "g", "h", "i", "j", "k", "l",
      "m", "n", "o", "p", "q", "r", "s", "t", "u", "v", "w", "x", "y", "z", "A", "\r",
      "\n", "3", "\r", "\n", "x", "y", "z", "\r", "\n", "3", "\r", "\n", "a", "b",
      "c", "\r", "\n", "0", "\r", "\n", "\r", "\n">>

RECURSIVE Cuts(_, _)
\* the sets of at most k places where a sequence of n bytes is cut
Cuts(k, n) ==
    IF k = 0 THEN {{}}
    ELSE LET prev == Cuts(k - 1, n)
         IN  prev \cup {c \cup {i} : c \in prev, i \in 1..(n - 1)}

\* the segments of P cut after the places in cuts
Segments(P, cuts) ==
    LET ends == cuts \cup {Len(P)}
        endAt(k) == CHOOSE c \in ends : Cardinality({d \in ends : d < c}) = k - 1
        startAt(k) == IF k = 1 THEN 1 ELSE endAt(k - 1) + 1
    IN  IF P = << >> THEN << >>
        ELSE [k \in 1..Cardinality(ends) |-> SubSeq(P, startAt(k), endAt(k))]

\* the source's Read(p), len(p) = n > 0: the bytes of one segment at most, or
\* EOF.  It can block when no byte of a segment that arrived is left; late
\* records that it was called then with bytes in the caller's buffer already,
\* other than after a chunk header found in the bufio buffer.
rdRead(c, n) ==
    LET late == \/ c.late
                \/ (~c.r.avail /\ c.outputTotalBytesWritten > 0 /\ ~c.headerWasBuffered)
    IN  IF c.r.rd = << >>
        THEN [c |-> [c EXCEPT !.late = late], p |-> << >>, err |-> "EOF"]
        ELSE LET seg == Head(c.r.rd)
                 k == IF n < Len(seg) THEN n ELSE Len(seg)
             IN  [c |-> [c EXCEPT !.late = late,
                                  !.r.rd = IF k < Len(seg)
                                           THEN <<SubSeq(seg, k + 1, Len(seg))>> \o Tail(@)
                                           ELSE Tail(@),
                                  !.r.avail = k < Len(seg)],
                  p |-> SubSeq(seg, 1, k),
                  err |-> "nil"]

\* bufio.Reader.fill: slides the unread bytes to the start of the buffer and
\* reads once into the rest
fill(c) ==
    LET b == c.r
        slid == IF b.r > 0
                THEN [c EXCEPT !.r.buf = SubSeq(b.buf, b.r + 1, b.w)
                                         \o SubSeq(b.buf, b.w - b.r + 1, BufioSize),
                               !.r.w = b.w - b.r,
                               !.r.r = 0]
                ELSE c
        filled(w, rd) ==
            [rd.c EXCEPT !.r.buf = SubSeq(@, 1, w) \o rd.p \o SubSeq(@, w + Len(rd.p) + 1, BufioSize),
                         !.r.w = w + Len(rd.p),
                         !.r.err = rd.err]
        readInto(x) == filled(x.r.w, rdRead(x, BufioSize - x.r.w))
    IN  readInto(slid)

RECURSIVE ReadSlice(_, _)
\* bufio.Reader.ReadSlice('\n') with s bytes already searched; the slice it
\* returns is a window of the buffer, kept in cp.line (readChunkLine)
ReadSlice(c, s) ==
    LET b == c.r
        found == {i \in (b.r + s + 1)..b.w : b.buf[i] = "\n"}
    IN  IF found # {}
        THEN LET i == CHOOSE x \in found : \A y \in found : x <= y
             IN  [c |-> [c EXCEPT !.line = [off |-> b.r, len |-> i - b.r], !.r.r = i],
                  err |-> "nil"]
        ELSE IF b.err # "nil"
        THEN [c |-> [c EXCEPT !.line = [off |-> b.r, len |-> b.w - b.r],
                              !.r.r = b.w,
                              !.r.err = "nil"],
              err |-> b.err]
        ELSE IF b.w - b.r >= BufioSize
        THEN [c |-> [c EXCEPT !.line = [off |-> 0, len |-> BufioSize], !.r.r = b.w],
              err |-> "ErrBufferFull"]
        ELSE ReadSlice(fill(c), b.w - b.r)

\* bufio.Reader.Read(p), len(p) = n > 0
bufioRead(c, n) ==
    LET b == c.r
        copied(x) == LET k == IF n < x.r.w - x.r.r THEN n ELSE x.r.w - x.r.r
                     IN  [c |-> [x EXCEPT !.r.r = @ + k],
                          p |-> SubSeq(x.r.buf, x.r.r + 1, x.r.r + k),
                          err |-> "nil"]
        buffered(rd) ==
            IF rd.p = << >> THEN [c |-> rd.c, p |-> << >>, err |-> rd.err]
            ELSE copied([rd.c EXCEPT !.r.buf = rd.p \o SubSeq(@, Len(rd.p) + 1, BufioSize),
                                     !.r.w = Len(rd.p)])
    IN  IF b.r # b.w THEN copied(c)
        ELSE IF b.err # "nil"
        THEN [c |-> [c EXCEPT !.r.err = "nil"], p |-> << >>, err |-> b.err]
        ELSE IF n >= BufioSize
        THEN rdRead(c, n)
        ELSE buffered(rdRead([c EXCEPT !.r.r = 0, !.r.w = 0], BufioSize))

\* io.ReadFull(cp.r, cp.buf[:2])
ReadFull(c) ==
    LET done(x, p, err) ==
            [c |-> [x EXCEPT !.buf = p \o SubSeq(@, Len(p) + 1, 2)],
             n |-> Len(p),
             err |-> IF Len(p) >= 2 THEN "nil"
                     ELSE IF Len(p) > 0 /\ err = "EOF" THEN "ErrUnexpectedEOF"
                     ELSE err]
        second(a, b) == done(b.c, a.p \o b.p, b.err)
        first(a) == IF Len(a.p) < 2 /\ a.err = "nil"
                    THEN second(a, bufioRead(a.c, 2 - Len(a.p)))
                    ELSE done(a.c, a.p, a.err)
    IN  first(bufioRead(c, 2))

RECURSIVE parseHexUint(_)
parseHexUint(v) ==
    LET digits == <<"0", "1", "2", "3", "4", "5", "6", "7", "8", "9",
                    "a", "b", "c", "d", "e", "f">>
        upper == <<"A", "B", "C", "D", "E", "F">>
        b == v[Len(v)]
        shifted(n) ==
            IF n.err # "nil" THEN n
            ELSE IF b \notin Range(digits) \cup Range(upper)
            THEN [n |-> 0, err |-> "invalid byte in chunk length"]
            ELSE IF Len(v) = 17
            THEN [n |-> 0, err |-> "http chunk length too large"]
            ELSE [n |-> n.n * 16 + (IF b \in Range(digits) THEN IndexIn(b, digits) - 1
                                    ELSE IndexIn(b, upper) + 9),
                  err |-> "nil"]
    IN  IF v = << >> THEN [n |-> 0, err |-> "nil"]
        ELSE shifted(parseHexUint(SubSeq(v, 1, Len(v) - 1)))

\* beginChunk with readChunkLine, trimTrailingWhitespace, removeChunkExtension
beginChunk(c) ==
    LET isASCIISpace(b) == b \in {" ", "\t", "\n", "\r"}
        trimTrailingWhitespace(b) ==
            LET kept == {i \in 1..Len(b) : ~isASCIISpace(b[i])}
            IN  SubSeq(b, 1, IF kept = {} THEN 0
                             ELSE CHOOSE i \in kept : \A j \in kept : j <= i)
        removeChunkExtension(p) ==
            LET semi == {i \in 1..Len(p) : p[i] = ";"}
            IN  IF semi = {} THEN p
                ELSE SubSeq(p, 1, (CHOOSE i \in semi : \A j \in semi : i <= j) - 1)
        parsed(x, hex) == [x EXCEPT !.unreadBytesInChunk = hex.n, !.err = hex.err]
        readChunkLine(x, err) ==
            IF err # "nil"
            THEN [x EXCEPT !.err = CASE err = "EOF" -> "ErrUnexpectedEOF"
                                     [] err = "ErrBufferFull" -> "ErrLineTooLong"
                                     [] OTHER -> err]
            ELSE IF x.line.len >= maxLineLength
            THEN [x EXCEPT !.err = "ErrLineTooLong"]
            ELSE parsed(x, parseHexUint(removeChunkExtension(trimTrailingWhitespace(
                               SubSeq(x.r.buf, x.line.off + 1, x.line.off + x.line.len)))))
        sliced(rs) == readChunkLine([rs.c EXCEPT !.unwrittenBytesInBuffer = rs.c.line.len], rs.err)
    IN  sliced(ReadSlice(c, 0))

RECURSIVE chunkedReaderLoop(_)
\* the loop of chunkedReader.Read, one iteration and the rest of the loop
chunkedReaderLoop(c0) ==
    LET Buffered(c) == c.r.w - c.r.r
        lineBytes(c) == SubSeq(c.r.buf, c.line.off + 1, c.line.off + c.line.len)
        chunkHeaderAvailable(c) ==
            \E i \in (c.r.r + 1)..c.r.w : c.r.buf[i] = "\n"
        flushed(c, from) ==
            LET n0 == IF c.outputSlice < c.unwrittenBytesInBuffer
                      THEN c.outputSlice ELSE c.unwrittenBytesInBuffer
                at == Len(from) - c.unwrittenBytesInBuffer
            IN  [c EXCEPT !.returned = @ \o SubSeq(from, at + 1, at + n0),
                          !.outputTotalBytesWritten = @ + n0,
                          !.outputSlice = @ - n0,
                          !.unwrittenBytesInBuffer = @ - n0]
        \* lines 145-163
        bodyRead(c, rd) ==
            LET n0 == Len(rd.p)
                atEnd == c.unreadBytesInChunk - n0 = 0 /\ rd.err = "nil"
            IN  [rd.c EXCEPT !.returned = @ \o rd.p,
                             !.outputSlice = @ - n0,
                             !.outputTotalBytesWritten = @ + n0,
                             !.outputBytesFromBody = @ + n0,
                             !.unreadBytesInChunk = @ - n0,
                             !.checkEnd = IF atEnd THEN TRUE ELSE @,
                             !.err = IF ~atEnd /\ rd.err = "EOF"
                                     THEN "ErrUnexpectedEOF" ELSE rd.err]
        \* lines 132-163
        body(c) ==
            IF c.unreadBytesInChunk = 0
            THEN IF c.outputBytesFromBody > 0 /\ ~chunkHeaderAvailable(c)
                 THEN c
                 ELSE chunkedReaderLoop(
                          beginChunk([c EXCEPT !.headerWasBuffered = chunkHeaderAvailable(c)]))
            ELSE IF c.outputSlice = 0 THEN c
            ELSE chunkedReaderLoop(
                     bodyRead(c, bufioRead(c, IF c.outputSlice > c.unreadBytesInChunk
                                              THEN c.unreadBytesInChunk ELSE c.outputSlice)))
        \* lines 113-130, after flushLine
        lineFlushed(x) ==
            IF x.unwrittenBytesInBuffer # 0 THEN x
            ELSE IF x.unreadBytesInChunk = 0
            THEN chunkedReaderLoop(IF lineBytes(x) = <<"0", "\r", "\n">>
                                   THEN [x EXCEPT !.checkEnd = TRUE]
                                   ELSE [x EXCEPT !.err = "EOF"])
            ELSE body(x)
        \* lines 104-131
        pending(c) ==
            IF c.unwrittenBytesInBuffer > 0
            THEN IF c.outputSlice = 0 THEN c
                 ELSE lineFlushed(flushed(c, lineBytes(c)))
            ELSE body(c)
        \* lines 97-102, after flushFooter
        footerFlushed(x) ==
            IF /\ x.unreadBytesInChunk = 0
               /\ x.unwrittenBytesInBuffer = 0
               /\ lineBytes(x) = <<"0", "\r", "\n">>
            THEN [x EXCEPT !.checkEnd = FALSE, !.err = "EOF"]
            ELSE pending([x EXCEPT !.checkEnd = IF x.unwrittenBytesInBuffer = 0
                                                THEN FALSE ELSE @])
        \* lines 89-95
        footerRead(x) ==
            IF x.outputSlice = 0 THEN x
            ELSE footerFlushed(flushed(x, x.buf))
        \* lines 77-88
        readFull(rf) ==
            IF rf.err # "nil"
            THEN [rf.c EXCEPT !.unwrittenBytesInBuffer = rf.n,
                              !.err = IF rf.err = "EOF" THEN "ErrUnexpectedEOF" ELSE rf.err]
            ELSE IF rf.c.buf # <<"\r", "\n">>
            THEN [rf.c EXCEPT !.unwrittenBytesInBuffer = rf.n,
                              !.err = "malformed chunked encoding"]
            ELSE footerRead([rf.c EXCEPT !.unwrittenBytesInBuffer = rf.n])
        \* lines 68-102
        footer(c) ==
            IF /\ c.outputBytesFromBody > 0
               /\ Buffered(c) < 2
               /\ c.unwrittenBytesInBuffer = 0
            THEN c
            ELSE IF c.unwrittenBytesInBuffer = 0 THEN readFull(ReadFull(c))
            ELSE footerRead(c)
    IN  IF c0.err # "nil" THEN c0
        ELSE IF c0.checkEnd THEN footer(c0)
        ELSE pending(c0)

\* chunkedReader.Read lines 64-66, on a reader that forgets the error of its
\* last call
ReadEntered_ErrCleared(c, n) ==
    [c EXCEPT !.outputSlice = n, !.outputTotalBytesWritten = 0, !.outputBytesFromBody = 0,
              !.headerWasBuffered = FALSE, !.err = "nil"]

\* chunkedReader.Read lines 64-66: the call notes its output slice and resets
\* its counts; cp.err is left as the last call set it
ReadEntered(c, n) ==
    [c EXCEPT !.outputSlice = n, !.outputTotalBytesWritten = 0, !.outputBytesFromBody = 0,
              !.headerWasBuffered = FALSE]

\* NewChunkedReader(r): a chunkedReader over a new bufio.Reader over a source
\* that delivers the segments rd.  input keeps the bytes the source was given.
NewChunkedReader(rd, input) ==
    [r |-> [rd |-> rd, avail |-> FALSE,
            buf |-> [i \in 1..BufioSize |-> "_"], r |-> 0, w |-> 0, err |-> "nil"],
     unreadBytesInChunk |-> 0,
     err |-> "nil",
     buf |-> <<"_", "_">>,
     checkEnd |-> FALSE,
     outputSlice |-> 0,
     outputBytesFromBody |-> 0,
     outputTotalBytesWritten |-> 0,
     line |-> [off |-> 0, len |-> 0],
     unwrittenBytesInBuffer |-> 0,
     input |-> input,
     whole |-> << >>,
     returned |-> << >>,
     late |-> FALSE,
     again |-> FALSE,
     headerWasBuffered |-> FALSE]

RECURSIVE ReadAll(_, _, _)
\* io.ReadAll with buffers of n bytes: Read is called until it returns an
\* error, k times at most
ReadAll(c, n, k) ==
    IF c.err # "nil" \/ k = 0 THEN c
    ELSE ReadAll(chunkedReaderLoop(ReadEntered(c, n)), n, k - 1)

\* a chunked reader over a source that delivers P in the segments cut at cuts;
\* whole keeps what a second reader over the same source returns to a caller
\* that reads to the end with buffers of BufioSize bytes
ChunkedReaderStarted(P, cuts) ==
    /\ cp = NoReader
    /\ cp' = [NewChunkedReader(Segments(P, cuts), P) EXCEPT
                  !.whole = ReadAll(NewChunkedReader(Segments(P, cuts), P), BufioSize,
                                    Len(P) + 2).returned]
    /\ UNCHANGED <<proc, connState, mainPc, channelAlreadyHandled, channelLog, sessionHandlers,
                   scPc, requestHandled, execRequest, execRequestCompleted, gPc, fw,
                   reqPayload, connTunnelName, connReqPayload, connSshChannel,
                   sshTunnelListeners, sshTunnelListenersLock, forwards, listener, accPc,
                   fwdReply, httpPc, httpReq, httpResult, domainPath, httpConnection,
                   hadPreviousRequests, httpProcessor, remoteTCPConnectionClose, wg,
                   forwardedChannels, kaPc, missingReplies, kaRead, kaRequests, h, nameChecked,
                   sessionRequests, splice, acceptor>>

\* chunkedReader.Read(output), len(output) = n; the caller reads until the
\* reader returns an error (io.ReadAll, io.Copy)
chunkedReaderRead(n) ==
    /\ cp # NoReader
    /\ cp.err = "nil"
    /\ cp' = chunkedReaderLoop(ReadEntered(cp, n))
    /\ UNCHANGED <<proc, connState, mainPc, channelAlreadyHandled, channelLog, sessionHandlers,
                   scPc, requestHandled, execRequest, execRequestCompleted, gPc, fw,
                   reqPayload, connTunnelName, connReqPayload, connSshChannel,
                   sshTunnelListeners, sshTunnelListenersLock, forwards, listener, accPc,
                   fwdReply, httpPc, httpReq, httpResult, domainPath, httpConnection,
                   hadPreviousRequests, httpProcessor, remoteTCPConnectionClose, wg,
                   forwardedChannels, kaPc, missingReplies, kaRead, kaRequests, h, nameChecked,
                   sessionRequests, splice, acceptor>>

\* chunkedReader.Read(output), len(output) = n, called again on a reader that
\* has returned an error
chunkedReaderReadAgain(n) ==
    /\ cp # NoReader
    /\ cp.err # "nil"
    /\ cp' = [chunkedReaderLoop(ReadEntered(cp, n)) EXCEPT !.again = TRUE]
    /\ UNCHANGED <<proc, connState, mainPc, channelAlreadyHandled, channelLog, sessionHandlers,
                   scPc, requestHandled, execRequest, execRequestCompleted, gPc, fw,
                   reqPayload, connTunnelName, connReqPayload, connSshChannel,
                   sshTunnelListeners, sshTunnelListenersLock, forwards, listener, accPc,
                   fwdReply, httpPc, httpReq, httpResult, domainPath, httpConnection,
                   hadPreviousRequests, httpProcessor, remoteTCPConnectionClose, wg,
                   forwardedChannels, kaPc, missingReplies, kaRead, kaRequests, h, nameChecked,
                   sessionRequests, splice, acceptor>>

NextChunked ==
    \/ \E P \in ChunkedPayloads \cup TruncatedPayloads :
           \E cuts \in Cuts(MaxCuts, Len(P)) : ChunkedReaderStarted(P, cuts)
    \/ \E cuts \in Cuts(1, Len(LongPayload)) : ChunkedReaderStarted(LongPayload, cuts)
    \/ \E n \in ReadSizes : chunkedReaderRead(n)
    \/ \E n \in ReadSizes : chunkedReaderReadAgain(n)

SpecChunked == Init /\ [][NextChunked]_vars

\* ------------------------------------------------------------------------
\* Tunnel names: tunnelNameValid applied to the names of the tests and to
\* every short string over a few characters.
\* ------------------------------------------------------------------------

\* the longest of the enumerated names
MaxNameLen == 3

NameChars == {"a", "0", "A", "-", "*"}

\* utils_test.go: the names of the tests; names at the length limit; every
\* string of up to MaxNameLen characters
TunnelNames ==
    {<<"a", "b", "c", "d">>,
     <<"m", "y", "-", "s", "u", "b">>,
     <<"a", "-", "-", "c">>,
     <<"a", "b", "c", "-", "d", "-", "-", "r">>,
     <<"a", "-", "b", "-", "c">>,
     <<"a", "b", "c", "-", "d", "-", "r">>,
     <<"a", "*", "b", "c", "d">>,
     <<"d", "s", "d", "s", "f", "s", ".", "f", "s", "d", "f", "d">>,
     <<"-", "a", "-", "b", "-", "c">>,
     <<"a", "b", "c", "-", "d", "-", "r", "-">>,
     <<" ", " ", " ">>}
    \cup {[i \in 1..n |-> "a"] : n \in {49, 50, 51}}
    \cup {[i \in 1..49 |-> IF i = 25 THEN "-" ELSE "b"]}
    \cup UNION {[1..n -> NameChars] : n \in 0..MaxNameLen}

\* tunnelNameValid(tunnelName) is called and returns
NameChecked(tunnelName) ==
    /\ nameChecked' = [tunnelName |-> tunnelName, checked |-> TRUE,
                       nameValid |-> tunnelNameValid(tunnelName)]
    /\ UNCHANGED <<proc, connState, mainPc, channelAlreadyHandled, channelLog, sessionHandlers,
                   scPc, requestHandled, execRequest, execRequestCompleted, gPc, fw,
                   reqPayload, connTunnelName, connReqPayload, connSshChannel,
                   sshTunnelListeners, sshTunnelListenersLock, forwards, listener, accPc,
                   fwdReply, httpPc, httpReq, httpResult, domainPath, httpConnection,
                   hadPreviousRequests, httpProcessor, remoteTCPConnectionClose, wg,
                   forwardedChannels, kaPc, missingReplies, kaRead, kaRequests, cp, h,
                   sessionRequests, splice, acceptor>>

NextNames == \E tunnelName \in TunnelNames : NameChecked(tunnelName)

SpecNames == Init /\ [][NextNames]_vars

\* C22 as stated: tunnelNameValid(s) is true exactly when s has fewer than 50
\* characters and matches ^[a-z0-9](?!.*--)[a-z0-9-]*[a-z0-9]$ : a lower-case
\* letter or digit, then lower-case letters, digits and dashes without two
\* dashes in a row, then a lower-case letter or digit.
C22_ValidIffMatches ==
    nameChecked.checked =>
        LET s == nameChecked.tunnelName
            n == Len(s)
            alnum(c) == c \in Range(LowerChars) \/ c \in Range(DigitChars)
            matches == /\ n >= 2
                       /\ alnum(s[1])
                       /\ ~\E i \in 2..(n - 1) : s[i] = "-" /\ s[i + 1] = "-"
                       /\ \A i \in 2..(n - 1) : alnum(s[i]) \/ s[i] = "-"
                       /\ alnum(s[n])
        IN  nameChecked.nameValid <=> (n < 50 /\ matches)

\* ------------------------------------------------------------------------
\* Properties of the chunked reader (checked under SpecChunked)
\* ------------------------------------------------------------------------

\* C16 (chunked pass-through): for every valid chunked payload, however its
\* bytes are cut into the source's reads and whatever the lengths of the
\* caller's buffer, the reader ends with EOF and the bytes it returned are
\* exactly the payload, the last chunk and its final CRLF included.
C16_PassThrough ==
    (cp # NoReader /\ cp.input \in ChunkedPayloads /\ cp.err # "nil")
    => /\ cp.err = "EOF"
       /\ cp.returned = cp.input

\* C17 (truncated input is reported): for every strict prefix of a valid
\* chunked payload the reader ends with ErrUnexpectedEOF, never with EOF.
C17_TruncatedIsUnexpectedEOF ==
    (cp # NoReader /\ cp.input \in TruncatedPayloads /\ cp.err # "nil")
    => cp.err = "ErrUnexpectedEOF"

\* C18 (data is returned as soon as there is any): once a call of Read has
\* put a byte into the caller's buffer it calls no Read of the source that
\* can block, unless the next chunk header was in the bufio buffer already.
C18_NoBlockingReadAfterOutput ==
    cp # NoReader => ~cp.late

\* ------------------------------------------------------------------------
\* The HTTP processor: an httpProcessor over a reader whose bytes arrive in
\* segments, read through GetReader() by a caller (io.CopyBuffer) until the
\* reader returns an error.
\* ------------------------------------------------------------------------

\* the size of a pooled buffer (32 KiB in the program)
bufferSize == 96

\* Requests on which SetHostHeader is called: the bytes before the Host value,
\* the value, the bytes up to the public domain in Origin, the domain, the rest
RewriteInputs ==
    {[kind |-> "request",
      pre  |-> <<"G", "E", "T", " ", "/", " ", "H", "T", "T", "P", "/", "1", ".", "1", "\r",
                   "\n", "H", "o", "s", "t", ":", " ">>,
      host |-> <<"a", ".", "d", ".", "i", "o">>,
      mid  |-> <<"\r", "\n", "\r", "\n">>,
      dom  |-> << >>,
      post |-> << >>],
     [kind |-> "request",
      pre  |-> <<"P", "O", "S", "T", " ", "/", " ", "H", "T", "T", "P", "/", "1", ".", "1",
                   "\r", "\n", "C", "o", "n", "t", "e", "n", "t", "-", "L", "e", "n", "g", "t",
                   "h", ":", " ", "2", "\r", "\n", "H", "o", "s", "t", ":", " ">>,
      host |-> <<"a", ".", "d", ".", "i", "o">>,
      mid  |-> <<"\r", "\n", "O", "r", "i", "g", "i", "n", ":", " ", "h", "t", "t", "p", ":",
                   "/", "/">>,
      dom  |-> <<"d", ".", "i", "o">>,
      post |-> <<":", "8", "\r", "\n", "\r", "\n", "h", "i">>],
     [kind |-> "request",
      pre  |-> <<"P", "O", "S", "T", " ", "/", " ", "H", "T", "T", "P", "/", "1", ".", "1",
                   "\r", "\n", "H", "o", "s", "t", ":", " ">>,
      host |-> <<"a", ".", "d", ".", "i", "o">>,
      mid  |-> <<"\r", "\n", "T", "r", "a", "n", "s", "f", "e", "r", "-", "E", "n", "c", "o",
                   "d", "i", "n", "g", ":", " ", "c", "h", "u", "n", "k", "e", "d", "\r", "\n",
                   "\r", "\n", "1", "\r", "\n", "a", "\r", "\n", "0", "\r", "\n", "\r", "\n">>,
      dom  |-> << >>,
      post |-> << >>],
     [kind |-> "request",
      pre  |-> <<"G", "E", "T", " ", "/", " ", "H", "T", "T", "P", "/", "1", ".", "1", "\r",
                   "\n", "h", "o", "s", "t", ":", " ">>,
      host |-> <<"a", ".", "d", ".", "i", "o">>,
      mid  |-> <<"\r", "\n", "\r", "\n">>,
      dom  |-> << >>,
      post |-> << >>],
     [kind |-> "request",
      pre  |-> <<"G", "E", "T", " ", "/", " ", "H", "T", "T", "P", "/", "1", ".", "1", "\r",
                   "\n", "H", "o", "s", "t", ":", " ">>,
      host |-> <<"a", ".", "d", ".", "i", "o">>,
      mid  |-> <<"\r", "\n", "O", "r", "i", "g", "i", "n", ":", " ", "h", "t", "t", "p", ":",
                   "/", "/">>,
      dom  |-> <<"D", ".", "I", "O">>,
      post |-> <<"\r", "\n", "\r", "\n">>],
     [kind |-> "request",
      pre  |-> <<"G", "E", "T", " ", "/", " ", "H", "T", "T", "P", "/", "1", ".", "1", "\r",
                   "\n", "X", "-", "F", "o", "r", "w", "a", "r", "d", "e", "d", "-", "H", "o",
                   "s", "t", ":", " ", "a", ".", "d", ".", "i", "o", "\r", "\n", "H", "o", "s",
                   "t", ":", " ">>,
      host |-> <<"a", ".", "d", ".", "i", "o">>,
      mid  |-> <<"\r", "\n", "\r", "\n">>,
      dom  |-> << >>,
      post |-> << >>]}

\* Responses of a tenant
ResponseInputs ==
    {[kind |-> "response",
      pre  |-> <<"H", "T", "T", "P", "/", "1", ".", "1", " ", "2", "0", "0", " ", "O", "K",
                   "\r", "\n", "\r", "\n", "h", "i">>,
      host |-> << >>,
      mid  |-> << >>,
      dom  |-> << >>,
      post |-> << >>],
     [kind |-> "response",
      pre  |-> <<"H", "T", "T", "P", "/", "1", ".", "1", " ", "2", "0", "0", " ", "O", "K",
                   "\r", "\n", "C", "o", "n", "t", "e", "n", "t", "-", "L", "e", "n", "g", "t",
                   "h", ":", " ", "2", "\r", "\n", "\r", "\n", "h", "i">>,
      host |-> << >>,
      mid  |-> << >>,
      dom  |-> << >>,
      post |-> << >>],
     [kind |-> "response",
      pre  |-> <<"H", "T", "T", "P", "/", "1", ".", "1", " ", "3", "0", "4", " ", "N", "o",
                   "t", " ", "M", "o", "d", "i", "f", "i", "e", "d", "\r", "\n", "\r", "\n">>,
      host |-> << >>,
      mid  |-> << >>,
      dom  |-> << >>,
      post |-> << >>],
     [kind |-> "response",
      pre  |-> <<"H", "T", "T", "P", "/", "1", ".", "1", " ", "2", "0", "4", " ", "N", "o",
                   " ", "C", "o", "n", "t", "e", "n", "t", "\r", "\n", "C", "o", "n", "t", "e",
                   "n", "t", "-", "L", "e", "n", "g", "t", "h", ":", " ", "2", "\r", "\n",
                   "\r", "\n", "h", "i">>,
      host |-> << >>,
      mid  |-> << >>,
      dom  |-> << >>,
      post |-> << >>],
     [kind |-> "response",
      pre  |-> <<"H", "T", "T", "P", "/", "1", ".", "1", " ", "3", "0", "4", " ", "N", "o",
                   "t", " ", "M", "o", "d", "i", "f", "i", "e", "d", "\r", "\n", "C", "o", "n",
                   "t", "e", "n", "t", "-", "L", "e", "n", "g", "t", "h", ":", " ", "7", "\r",
                   "\n", "\r", "\n">>,
      host |-> << >>,
      mid  |-> << >>,
      dom  |-> << >>,
      post |-> << >>],
     [kind |-> "response",
      pre  |-> <<"H", "T", "T", "P", "/", "1", ".", "1", " ", "1", "0", "0", " ", "C", "o",
                   "n", "t", "i", "n", "u", "e", "\r", "\n", "C", "o", "n", "t", "e", "n", "t",
                   "-", "L", "e", "n", "g", "t", "h", ":", " ", "0", "\r", "\n", "\r", "\n",
                   "h", "i">>,
      host |-> << >>,
      mid  |-> << >>,
      dom  |-> << >>,
      post |-> << >>],
     [kind |-> "response",
      pre  |-> <<"H", "T", "T", "P", "/", "1", ".", "1", " ", "4", "0", "0", " ", "B", "a",
                   "d", " ", "R", "e", "q", "u", "e", "s", "t", "\r", "\n", "C", "o", "n", "t",
                   "e", "n", "t", "-", "L", "e", "n", "g", "t", "h", ":", " ", "2", "\r", "\n",
                   "\r", "\n", "h", "i">>,
      host |-> << >>,
      mid  |-> << >>,
      dom  |-> << >>,
      post |-> << >>]}

\* What a client sends on one keep-alive connection
StreamInputs ==
    {[kind |-> "stream",
      pre  |-> <<"P", "O", "S", "T", " ", "/", " ", "H", "T", "T", "P", "/", "1", ".", "1",
                   "\r", "\n", "H", "o", "s", "t", ":", " ", "a", ".", "d", ".", "i", "o",
                   "\r", "\n", "C", "o", "n", "t", "e", "n", "t", "-", "L", "e", "n", "g", "t",
                   "h", ":", " ", "2", "\r", "\n", "\r", "\n", "h", "i", "G", "E", "T", " ",
                   "/", " ", "H", "T", "T", "P", "/", "1", ".", "1", "\r", "\n", "H", "o", "s",
                   "t", ":", " ", "a", ".", "d", ".", "i", "o", "\r", "\n", "\r", "\n">>,
      host |-> << >>,
      mid  |-> << >>,
      dom  |-> << >>,
      post |-> << >>],
     [kind |-> "stream",
      pre  |-> <<"G", "E", "T", " ", "/", " ", "H", "T", "T", "P", "/", "1", ".", "1", "\r",
                   "\n", "H", "o", "s", "t", ":", " ", "a", ".", "d", ".", "i", "o", "\r",
                   "\n", "\r", "\n", "G", "E", "T", " ", "/", " ", "H", "T", "T", "P", "/",
                   "1", ".", "1", "\r", "\n", "H", "o", "s", "t", ":", " ", "a", ".", "d", ".",
                   "i", "o", "\r", "\n", "\r", "\n">>,
      host |-> << >>,
      mid  |-> << >>,
      dom  |-> << >>,
      post |-> << >>],
     [kind |-> "stream",
      pre  |-> <<"G", "E", "T", " ", "/", " ", "H", "T", "T", "P", "/", "1", ".", "1", "\r",
                   "\n", "H", "o", "s", "t", ":", " ", "a", ".", "d", ".", "i", "o", "\r",
                   "\n", "\r", "\n">>,
      host |-> << >>,
      mid  |-> << >>,
      dom  |-> << >>,
      post |-> << >>]}

\* Requests whose Content-Length carries a sign
LengthInputs ==
    {[kind |-> "length",
      pre  |-> <<"P", "O", "S", "T", " ", "/", " ", "H", "T", "T", "P", "/", "1", ".", "1",
                   "\r", "\n", "H", "o", "s", "t", ":", " ", "a", ".", "d", ".", "i", "o",
                   "\r", "\n", "C", "o", "n", "t", "e", "n", "t", "-", "L", "e", "n", "g", "t",
                   "h", ":", " ", "-", "1", "\r", "\n", "\r", "\n", "h", "i">>,
      host |-> << >>,
      mid  |-> << >>,
      dom  |-> << >>,
      post |-> << >>],
     [kind |-> "length",
      pre  |-> <<"P", "O", "S", "T", " ", "/", " ", "H", "T", "T", "P", "/", "1", ".", "1",
                   "\r", "\n", "H", "o", "s", "t", ":", " ", "a", ".", "d", ".", "i", "o",
                   "\r", "\n", "C", "o", "n", "t", "e", "n", "t", "-", "L", "e", "n", "g", "t",
                   "h", ":", " ", "-", "4", "0", "\r", "\n", "\r", "\n", "h", "i">>,
      host |-> << >>,
      mid  |-> << >>,
      dom  |-> << >>,
      post |-> << >>],
     [kind |-> "length",
      pre  |-> <<"P", "O", "S", "T", " ", "/", " ", "H", "T", "T", "P", "/", "1", ".", "1",
                   "\r", "\n", "H", "o", "s", "t", ":", " ", "a", ".", "d", ".", "i", "o",
                   "\r", "\n", "C", "o", "n", "t", "e", "n", "t", "-", "L", "e", "n", "g", "t",
                   "h", ":", " ", "+", "2", "\r", "\n", "\r", "\n", "h", "i">>,
      host |-> << >>,
      mid  |-> << >>,
      dom  |-> << >>,
      post |-> << >>]}

\* the methods of the requests the responses answer
RequestMethods == {<<"G", "E", "T">>, <<"H", "E", "A", "D">>, <<"C", "O", "N", "N", "E", "C", "T">>}

\* the values of the tenant's host override (sshClient.hostHeader)
HostHeaders == {<<"b", ".", "c">>, <<"l", "o", "n", "g", "e", "r", ".", "c", "o">>}

InputBytes(in) == in.pre \o in.host \o in.mid \o in.dom \o in.post

RECURSIVE Atoi(_)
\* strconv.Atoi, strconv.ParseInt of decimal digits
Atoi(s) ==
    IF s = << >> THEN 0
    ELSE Atoi(SubSeq(s, 1, Len(s) - 1)) * 10 + IndexIn(s[Len(s)], DigitChars) - 1

\* bytes.Replace(s, old, new, 1), strings.Replace(s, old, new, 1)
Replace(s, old, new) ==
    LET at(i) == IF i = 0 THEN s
                 ELSE SubSeq(s, 1, i - 1) \o new \o SubSeq(s, i + Len(old), Len(s))
    IN  at(Index(s, old))

\* textproto.Reader.ReadMIMEHeader on the header block: the lines up to the
\* empty line, each split at its first colon, the key in canonical form, the
\* value without the blanks around it
ReadMIMEHeader(block) ==
    LET ends == {i \in 1..Len(block) : block[i] = "\n"}
        endAt(k) == CHOOSE e \in ends : Cardinality({d \in ends : d < e}) = k - 1
        raw(k) == SubSeq(block, IF k = 1 THEN 1 ELSE endAt(k - 1) + 1, endAt(k) - 1)
        line(k) == IF raw(k) # << >> /\ raw(k)[Len(raw(k))] = "\r"
                   THEN SubSeq(raw(k), 1, Len(raw(k)) - 1) ELSE raw(k)
        empty == {k \in 1..Cardinality(ends) : line(k) = << >>}
        count == IF empty = {} THEN Cardinality(ends)
                 ELSE (CHOOSE k \in empty : \A j \in empty : k <= j) - 1
        ToUpperChar(c) == IF c \in Range(LowerChars) THEN UpperChars[IndexIn(c, LowerChars)] ELSE c
        CanonicalMIMEHeaderKey(s) ==
            [i \in 1..Len(s) |-> IF i = 1 \/ s[i - 1] = "-" THEN ToUpperChar(s[i])
                                 ELSE ToLowerChar(s[i])]
        trim(s) ==
            LET kept == {i \in 1..Len(s) : s[i] \notin {" ", "\t"}}
            IN  IF kept = {} THEN << >>
                ELSE SubSeq(s, CHOOSE i \in kept : \A j \in kept : i <= j,
                               CHOOSE i \in kept : \A j \in kept : j <= i)
        colon(k) == Index(line(k), <<":">>)
        key(k) == CanonicalMIMEHeaderKey(SubSeq(line(k), 1, colon(k) - 1))
        value(k) == trim(SubSeq(line(k), colon(k) + 1, Len(line(k))))
        at(name) == {k \in 1..count : key(k) = name}
        nth(name, n) == CHOOSE k \in at(name) : Cardinality({j \in at(name) : j < k}) = n - 1
    IN  IF \E k \in 1..count : colon(k) = 0
        THEN [headers |-> << >>, err |-> "malformed MIME header line"]
        ELSE [headers |-> [name \in {key(k) : k \in 1..count} |->
                              [n \in 1..Cardinality(at(name)) |-> value(nth(name, n))]],
              err |-> "nil"]

\* IsRequestChunked
IsChunked(x) ==
    /\ <<"T", "r", "a", "n", "s", "f", "e", "r", "-", "E", "n", "c", "o", "d", "i", "n", "g">> \in DOMAIN x.headers
    /\ x.headers[<<"T", "r", "a", "n", "s", "f", "e", "r", "-", "E", "n", "c", "o", "d", "i", "n", "g">>][1] = <<"c", "h", "u", "n", "k", "e", "d">>

\* GetContentLength that returns the value of Content-Length whatever the
\* status and the method of the request
GetContentLength_Parsed(x) ==
    IF <<"C", "o", "n", "t", "e", "n", "t", "-", "L", "e", "n", "g", "t", "h">> \in DOMAIN x.headers /\ ParseIntOk(x.headers[<<"C", "o", "n", "t", "e", "n", "t", "-", "L", "e", "n", "g", "t", "h">>][1])
    THEN [l |-> IF x.headers[<<"C", "o", "n", "t", "e", "n", "t", "-", "L", "e", "n", "g", "t", "h">>][1][1] = "-" THEN 0 - Atoi(Tail(x.headers[<<"C", "o", "n", "t", "e", "n", "t", "-", "L", "e", "n", "g", "t", "h">>][1]))
                ELSE IF x.headers[<<"C", "o", "n", "t", "e", "n", "t", "-", "L", "e", "n", "g", "t", "h">>][1][1] = "+" THEN Atoi(Tail(x.headers[<<"C", "o", "n", "t", "e", "n", "t", "-", "L", "e", "n", "g", "t", "h">>][1]))
                ELSE Atoi(x.headers[<<"C", "o", "n", "t", "e", "n", "t", "-", "L", "e", "n", "g", "t", "h">>][1]),
          ok |-> TRUE]
    ELSE [l |-> 0, ok |-> TRUE]

\* GetContentLength
GetContentLength(x) ==
    LET l == x.headers[<<"C", "o", "n", "t", "e", "n", "t", "-", "L", "e", "n", "g", "t", "h">>][1]
        digits == IF l # << >> /\ l[1] \in {"+", "-"} THEN Tail(l) ELSE l
        code == x.responseStatusCode
    IN  IF IsChunked(x) THEN [l |-> 0, ok |-> TRUE]
        ELSE IF <<"C", "o", "n", "t", "e", "n", "t", "-", "L", "e", "n", "g", "t", "h">> \in DOMAIN x.headers
        THEN IF ~ParseIntOk(l) THEN [l |-> 0, ok |-> FALSE]
             ELSE IF code = 204 \/ code = 304 \/ (code >= 100 /\ code < 200)
             THEN [l |-> 0, ok |-> TRUE]
             ELSE IF ~x.request /\ x.requestMethod = <<"C", "O", "N", "N", "E", "C", "T">> /\ code >= 200 /\ code < 300
             THEN [l |-> 0, ok |-> TRUE]
             ELSE IF ~x.request /\ x.requestMethod = <<"H", "E", "A", "D">>
             THEN [l |-> 0, ok |-> TRUE]
             ELSE [l |-> IF l[1] = "-" THEN 0 - Atoi(digits) ELSE Atoi(digits), ok |-> TRUE]
        ELSE IF x.request
        THEN [l |-> x.bufferBytesRead - x.bodyStartsIndex, ok |-> TRUE]
        \* 2<<62 - 1 in the program
        ELSE IF x.bufferBytesRead - x.bodyStartsIndex > 0
        THEN [l |-> 2147483647 - x.bufferBytesRead, ok |-> TRUE]
        ELSE [l |-> 0, ok |-> TRUE]

\* adjustBodyReader: the reader GetReader() returns.  limit is the N of the
\* io.LimitReader over the processor; a chunkedReader is created over the
\* processor when the limit is used up (NoReader until then).
adjustBodyReader(x) ==
    LET upgradeConn == /\ <<"C", "o", "n", "n", "e", "c", "t", "i", "o", "n">> \in DOMAIN x.headers
                       /\ ToLower(x.headers[<<"C", "o", "n", "n", "e", "c", "t", "i", "o", "n">>][1]) = <<"u", "p", "g", "r", "a", "d", "e">>
        limited(l) == [x EXCEPT !.bodyLength = l,
                                !.headerBodyReader = [kind |-> "limit", N |-> x.bodyStartsIndex + l,
                                                      chunked |-> NoReader]]
    IN  IF upgradeConn
        THEN [x EXCEPT !.headerBodyReader = [kind |-> "self", N |-> 0, chunked |-> NoReader]]
        ELSE IF IsChunked(x)
        THEN [x EXCEPT !.headerBodyReader = [kind |-> "chunked", N |-> x.bodyStartsIndex,
                                             chunked |-> NoReader]]
        ELSE limited(GetContentLength(x).l)

\* parseRequestLine, validMethod, parseResponseLine on the start line
parseStartLine(x, line) ==
    LET sp1 == Index(line, <<" ">>)
        method == SubSeq(line, 1, sp1 - 1)
        rest == SubSeq(line, sp1 + 1, Len(line))
        sp2 == Index(rest, <<" ">>)
        \* httpguts.IsTokenRune: no separator, no control character
        validMethod == /\ method # << >>
                       /\ \A i \in 1..Len(method) :
                              method[i] \notin {"/", ":", ";", ",", "=", "?", "@", "(", ")", "<", ">",
                                                "[", "]", "{", "}", "\\", " ", "\t", "\r", "\n"}
        statusCodeText == IF sp2 = 0 THEN rest ELSE SubSeq(rest, 1, sp2 - 1)
        statusOk == /\ sp1 > 0
                    /\ Len(statusCodeText) = 3
                    /\ \A i \in 1..3 : statusCodeText[i] \in Range(DigitChars)
    IN  IF sp1 > 0 /\ sp2 > 0 /\ validMethod
        THEN [x EXCEPT !.request = TRUE, !.requestMethod = method]
        ELSE IF statusOk
        THEN [x EXCEPT !.request = FALSE, !.responseStatusCode = Atoi(statusCodeText)]
        ELSE [x EXCEPT !.request = FALSE]

\* A Read that goes to the source on every call made before the buffer is drained
FillsBuffer_OnEveryCall(x) == TRUE

\* line 135: the buffer is filled by the first call only
FillsBuffer(x) == ~x.parsedHeaders /\ x.bufReadPos = x.bufWritePos

\* httpProcessor.Read(p), len(p) = n; readerReads counts the calls of
\* h.reader.Read that this call of Read made
httpProcessorRead(h0, n) ==
    LET readerRead(rd, k) ==
            IF rd = << >> THEN [rd |-> rd, p |-> << >>, err |-> "EOF"]
            ELSE LET m == IF k < Len(Head(rd)) THEN k ELSE Len(Head(rd))
                 IN  [rd |-> IF m < Len(Head(rd))
                             THEN <<SubSeq(Head(rd), m + 1, Len(Head(rd)))>> \o Tail(rd)
                             ELSE Tail(rd),
                      p |-> SubSeq(Head(rd), 1, m),
                      err |-> "nil"]
        failed(x, err) == [h |-> [x EXCEPT !.lastError = err], p |-> << >>, err |-> err]
        \* lines 208-221
        copied(x) ==
            LET k == IF n < x.bufWritePos - x.bufReadPos THEN n ELSE x.bufWritePos - x.bufReadPos
            IN  IF n = 0 THEN [h |-> x, p |-> << >>, err |-> "nil"]
                \* h.buf[h.bufReadPos:h.bufWritePos] with the cursors crossed
                ELSE IF k < 0 THEN failed(x, "panic: slice bounds out of range")
                ELSE [h |-> [x EXCEPT !.bufReadPos = @ + k,
                                      !.bufferUsed = (x.bufReadPos + k = x.bufWritePos)],
                      p |-> SubSeq(x.buf, x.bufReadPos + 1, x.bufReadPos + k),
                      err |-> "nil"]
        \* lines 163-200
        withHeaders(x, mime) ==
            IF mime.err # "nil" THEN failed(x, mime.err)
            ELSE copied(adjustBodyReader([x EXCEPT !.headers = mime.headers,
                                                   !.parsedHeaders = TRUE]))
        \* lines 151-206; the positions are counted from 1 here
        parsed(x) ==
            LET firstLineEndPos == Index(x.buf, <<"\r", "\n">>)
                delimiterIndex == Index(x.buf, <<"\r", "\n", "\r", "\n">>)
            IN  IF x.parsedHeaders THEN copied(x)
                ELSE IF firstLineEndPos = 0
                THEN failed(x, "could not find the  http status line within the allocated buffer")
                ELSE IF delimiterIndex > 1
                THEN withHeaders(
                         parseStartLine([x EXCEPT !.bodyStartsIndex = delimiterIndex + 3],
                                        SubSeq(x.buf, 1, firstLineEndPos - 1)),
                         ReadMIMEHeader(SubSeq(x.buf, firstLineEndPos + 2, delimiterIndex + 3)))
                ELSE failed(x, "could not Read the headers within the allocated buffer")
        \* lines 137-148
        filled(x, rd) ==
            IF rd.err # "nil"
            THEN failed([x EXCEPT !.reader = rd.rd, !.readerReads = @ + 1,
                                  !.bufReadPos = 0, !.bufWritePos = 0], rd.err)
            ELSE parsed([x EXCEPT !.reader = rd.rd,
                                  !.readerReads = @ + 1,
                                  !.buf = rd.p \o SubSeq(@, Len(rd.p) + 1, Len(@)),
                                  !.httpBuf = rd.p \o SubSeq(@, Len(rd.p) + 1, Len(@)),
                                  !.bufReadPos = 0,
                                  !.bufWritePos = Len(rd.p),
                                  !.totalBytes = @ + Len(rd.p),
                                  !.bufferBytesRead = @ + x.totalBytes + Len(rd.p)])
        \* lines 224-229
        direct(x, rd) ==
            [h |-> [x EXCEPT !.reader = rd.rd, !.readerReads = @ + 1, !.lastError = rd.err,
                             !.totalBytes = @ + Len(rd.p)],
             p |-> rd.p,
             err |-> rd.err]
        called(hh) ==
            IF hh.lastError # "nil" THEN [h |-> hh, p |-> << >>, err |-> hh.lastError]
            ELSE IF hh.bufferUsed THEN direct(hh, readerRead(hh.reader, n))
            ELSE IF FillsBuffer(hh) THEN filled(hh, readerRead(hh.reader, Len(hh.buf)))
            ELSE parsed(hh)
    IN  called([h0 EXCEPT !.readerReads = 0])

ReadHeadersIfNeeded(x) == IF x.bufferUsed THEN x ELSE httpProcessorRead(x, 0).h

\* replaceHeader; c, start and end are counted from 1 here
replaceHeader(x0, headerName, headerValue) ==
    LET changed(x, oldHeader) ==
            LET hits == {c \in 1..(Len(x.buf) - Len(headerName)) :
                            /\ SubSeq(x.buf, c, c + Len(headerName) - 1) = headerName
                            /\ x.buf[c + Len(headerName)] = ":"
                            /\ c > 1
                            /\ x.buf[c - 1] = "\n"}
                start == CHOOSE c \in hits : \A d \in hits : c <= d
                end == Index(SubSeq(x.buf, start, Len(x.buf)), <<"\n">>)
                temp == SubSeq(x.buf, start, start + end - 2)
                offset == Len(headerValue) - Len(oldHeader)
                set == [x EXCEPT !.headers[headerName] = <<headerValue>>]
            IN  IF x.bufferUsed \/ hits = {} \/ end = 0 THEN set
                \* adjustBufferPositions
                ELSE adjustBodyReader(
                         [set EXCEPT !.buf = Replace(@, temp, Replace(temp, oldHeader, headerValue)),
                                     !.bufWritePos = @ + offset,
                                     !.bodyStartsIndex = @ + offset,
                                     !.bufferBytesRead = @ + offset])
        read(x) == IF headerName \in DOMAIN x.headers /\ Len(x.headers[headerName]) = 1
                   THEN changed(x, x.headers[headerName][1])
                   ELSE x
    IN  read(ReadHeadersIfNeeded(x0))

\* SetHostHeader
SetHostHeader(x0, header) ==
    LET domainURL == domainURIHost
        slash == Index(domainURL, <<"/">>)
        domain == IF slash = 0 THEN domainURL ELSE SubSeq(domainURL, 1, slash - 1)
        origin(x) ==
            IF /\ <<"O", "r", "i", "g", "i", "n">> \in DOMAIN x.headers
               /\ Len(x.headers[<<"O", "r", "i", "g", "i", "n">>]) = 1
               /\ Index(ToLower(x.headers[<<"O", "r", "i", "g", "i", "n">>][1]), ToLower(domain)) > 0
            THEN replaceHeader(x, <<"O", "r", "i", "g", "i", "n">>, Replace(x.headers[<<"O", "r", "i", "g", "i", "n">>][1], domain, header))
            ELSE x
    IN  origin(replaceHeader(ReadHeadersIfNeeded(x0), <<"H", "o", "s", "t">>, header))

\* What GetHost, GetContentLength read of a processor: the error of
\* ReadHeadersIfNeeded, the URL of the request line (no query in the requests
\* here) and the values of the headers
ParsedRequest(x0) ==
    LET values(x, name) == IF name \in DOMAIN x.headers THEN x.headers[name] ELSE << >>
        of(x) == [read |-> x.lastError,
                  URL |-> UrlOf(<<"/">>, << >>),
                  Host |-> values(x, <<"H", "o", "s", "t">>),
                  ContentLength |-> values(x, <<"C", "o", "n", "t", "e", "n", "t", "-", "L", "e", "n", "g", "t", "h">>),
                  TransferEncoding |-> values(x, <<"T", "r", "a", "n", "s", "f", "e", "r", "-", "E", "n", "c", "o", "d", "i", "n", "g">>)]
    IN  of(ReadHeadersIfNeeded(x0))

\* newHttpProcessor(rd, buffer): rd delivers the segments rd, buffer holds buf
newHttpProcessor(rd, buf) ==
    [buf |-> buf, httpBuf |-> buf, reader |-> rd,
     bufReadPos |-> 0, bufWritePos |-> 0, totalBytes |-> 0, bufferBytesRead |-> 0,
     bufferUsed |-> FALSE, parsedHeaders |-> FALSE, lastError |-> "nil",
     request |-> FALSE, requestMethod |-> << >>, headers |-> << >>,
     bodyStartsIndex |-> 0, bodyLength |-> 0,
     headerBodyReader |-> [kind |-> "none", N |-> 0, chunked |-> NoReader],
     responseStatusCode |-> 0, readerReads |-> 0]

\* A connection is accepted (or a channel opened) and a processor made for it:
\* the peer sends the bytes of in, cut into segments at cuts; the pooled
\* buffer has size bytes.  err is the error the caller of GetReader().Read
\* got, returned the bytes it got from each processor of the connection.  A
\* processor of a response is given the method of the request
\* (remoteForward.go:545-546).
ProcessorStarted(in, cuts, size, requestMethod) ==
    /\ h = NoReader
    /\ h' = [p |-> [newHttpProcessor(Segments(InputBytes(in), cuts), [i \in 1..size |-> "_"])
                       EXCEPT !.requestMethod = requestMethod],
             err |-> "nil", state |-> "new", input |-> in, hostHeader |-> Nil,
             returned |-> << >>, requests |-> 1, late |-> Nil]
    /\ UNCHANGED <<proc, connState, mainPc, channelAlreadyHandled, channelLog, sessionHandlers,
                   scPc, requestHandled, execRequest, execRequestCompleted, gPc, fw,
                   reqPayload, connTunnelName, connReqPayload, connSshChannel,
                   sshTunnelListeners, sshTunnelListenersLock, forwards, listener, accPc,
                   fwdReply, httpPc, httpReq, httpResult, domainPath, httpConnection,
                   hadPreviousRequests, httpProcessor, remoteTCPConnectionClose, wg,
                   forwardedChannels, kaPc, missingReplies, kaRead, kaRequests, cp,
                   nameChecked, sessionRequests, splice, acceptor>>

\* remoteForward.go:455-460: SetHostHeader when the tenant has a host
\* override, then ReadHeadersIfNeeded; GetReader() for a response
HeadersRead(hostHeader) ==
    /\ h # NoReader
    /\ h.state = "new"
    /\ hostHeader = Nil \/ (h.input.kind = "request" /\ h.requests = 1)
    /\ h' = [h EXCEPT !.p = ReadHeadersIfNeeded(IF hostHeader = Nil THEN h.p
                                                ELSE SetHostHeader(h.p, hostHeader)),
                      !.state = "reading",
                      !.hostHeader = hostHeader]
    /\ UNCHANGED <<proc, connState, mainPc, channelAlreadyHandled, channelLog, sessionHandlers,
                   scPc, requestHandled, execRequest, execRequestCompleted, gPc, fw,
                   reqPayload, connTunnelName, connReqPayload, connSshChannel,
                   sshTunnelListeners, sshTunnelListenersLock, forwards, listener, accPc,
                   fwdReply, httpPc, httpReq, httpResult, domainPath, httpConnection,
                   hadPreviousRequests, httpProcessor, remoteTCPConnectionClose, wg,
                   forwardedChannels, kaPc, missingReplies, kaRead, kaRequests, cp,
                   nameChecked, sessionRequests, splice, acceptor>>

\* SetHostHeader called by the owner of the processor when the consumer has
\* already taken bytes of the request from GetReader(); late is its argument
HostHeaderSetLate(hostHeader) ==
    /\ h # NoReader
    /\ h.state = "reading"
    /\ h.input.kind = "request"
    /\ h.hostHeader = Nil
    /\ h.late = Nil
    /\ h.err = "nil"
    /\ h.returned # << >>
    /\ h' = [h EXCEPT !.p = SetHostHeader(h.p, hostHeader), !.late = hostHeader]
    /\ UNCHANGED <<proc, connState, mainPc, channelAlreadyHandled, channelLog, sessionHandlers,
                   scPc, requestHandled, execRequest, execRequestCompleted, gPc, fw,
                   reqPayload, connTunnelName, connReqPayload, connSshChannel,
                   sshTunnelListeners, sshTunnelListenersLock, forwards, listener, accPc,
                   fwdReply, httpPc, httpReq, httpResult, domainPath, httpConnection,
                   hadPreviousRequests, httpProcessor, remoteTCPConnectionClose, wg,
                   forwardedChannels, kaPc, missingReplies, kaRead, kaRequests, cp,
                   nameChecked, sessionRequests, splice, acceptor>>

\* GetReader().Read(p), len(p) = n: io.LimitReader, io.MultiReader and the
\* chunked reader over the processor
ReaderRead(n) ==
    LET body == h.p.headerBodyReader
        got(rd, left) ==
            [h EXCEPT !.p = [rd.h EXCEPT !.headerBodyReader.N = left - Len(rd.p)],
                      !.returned = @ \o rd.p,
                      !.err = rd.err]
        \* what httpProcessor.Read returns from now on: the rest of the buffer,
        \* then what the reader delivers
        rest == (IF h.p.bufferUsed \/ h.p.bufReadPos = h.p.bufWritePos THEN << >>
                 ELSE <<SubSeq(h.p.buf, h.p.bufReadPos + 1, h.p.bufWritePos)>>) \o h.p.reader
        chunked(c) ==
            [h EXCEPT !.p.headerBodyReader.chunked = c,
                      !.returned = @ \o SubSeq(c.returned, Len(c.returned) - c.outputTotalBytesWritten + 1,
                                              Len(c.returned)),
                      !.err = c.err]
        start(c) == [c EXCEPT !.outputSlice = n,
                              !.outputTotalBytesWritten = 0,
                              !.outputBytesFromBody = 0,
                              !.headerWasBuffered = FALSE]
    IN  /\ h # NoReader
        /\ h.state = "reading"
        /\ h.err = "nil"
        /\ h' = IF body.kind = "none" THEN [h EXCEPT !.err = h.p.lastError]
                ELSE IF body.kind = "self" THEN got(httpProcessorRead(h.p, n), 0)
                ELSE IF body.N > 0
                THEN got(httpProcessorRead(h.p, IF n < body.N THEN n ELSE body.N), body.N)
                ELSE IF body.kind = "limit" THEN [h EXCEPT !.err = "EOF"]
                ELSE chunked(chunkedReaderLoop(start(
                         IF body.chunked = NoReader THEN NewChunkedReader(rest, << >>)
                         ELSE body.chunked)))
        /\ UNCHANGED <<proc, connState, mainPc, channelAlreadyHandled, channelLog,
                       sessionHandlers, scPc, requestHandled, execRequest,
                       execRequestCompleted, gPc, fw, reqPayload, connTunnelName,
                       connReqPayload, connSshChannel, sshTunnelListeners,
                       sshTunnelListenersLock, forwards, listener, accPc, fwdReply, httpPc,
                       httpReq, httpResult, domainPath, httpConnection, hadPreviousRequests,
                       httpProcessor, remoteTCPConnectionClose, wg, forwardedChannels, kaPc,
                       missingReplies, kaRead, kaRequests, cp, nameChecked, sessionRequests,
                       splice, acceptor>>

\* remoteForward.go:558-568 and 364-368: the request ended, the tenant left its
\* end open: the next processor of the connection, over the same pooled buffer
NextProcessor ==
    LET body == h.p.headerBodyReader
        reader == IF body.kind = "chunked" /\ body.chunked # NoReader
                  THEN body.chunked.r.rd ELSE h.p.reader
    IN  /\ h # NoReader
        /\ h.state = "reading"
        /\ h.err # "nil"
        /\ h.p.parsedHeaders
        /\ h.input.kind # "response"
        /\ h.requests < MaxRequests
        /\ h' = [h EXCEPT !.p = newHttpProcessor(reader, h.p.httpBuf),
                          !.err = "nil",
                          !.state = "new",
                          !.requests = @ + 1]
        /\ UNCHANGED <<proc, connState, mainPc, channelAlreadyHandled, channelLog,
                       sessionHandlers, scPc, requestHandled, execRequest,
                       execRequestCompleted, gPc, fw, reqPayload, connTunnelName,
                       connReqPayload, connSshChannel, sshTunnelListeners,
                       sshTunnelListenersLock, forwards, listener, accPc, fwdReply, httpPc,
                       httpReq, httpResult, domainPath, httpConnection, hadPreviousRequests,
                       httpProcessor, remoteTCPConnectionClose, wg, forwardedChannels, kaPc,
                       missingReplies, kaRead, kaRequests, cp, nameChecked, sessionRequests,
                       splice, acceptor>>

NextProcessorSpec ==
    \/ \E in \in RewriteInputs :
           \E size \in (Index(InputBytes(in), <<"\r", "\n", "\r", "\n">>) + 3)..(Len(InputBytes(in)) + 1) :
               ProcessorStarted(in, {}, size, << >>)
    \* a connection's bytes arrive split once anywhere, or up to MaxCuts
    \* times at the first byte and around the end of the first header block
    \/ \E in \in StreamInputs :
           LET k == Index(InputBytes(in), <<"\r", "\n", "\r", "\n">>) + 3
               places == {1, k - 1, k, k + 1, k + 2, k + 3} \cap (1..(Len(InputBytes(in)) - 1))
           IN  \E cuts \in Cuts(1, Len(InputBytes(in)))
                            \cup {c \in SUBSET places : Cardinality(c) <= MaxCuts} :
                   ProcessorStarted(in, cuts, bufferSize, << >>)
    \/ \E in \in LengthInputs : ProcessorStarted(in, {}, bufferSize, << >>)
    \/ \E in \in ResponseInputs, requestMethod \in RequestMethods :
           \E cuts \in Cuts(1, Len(InputBytes(in))) :
               ProcessorStarted(in, cuts, bufferSize, requestMethod)
    \/ \E hostHeader \in HostHeaders \cup {Nil} : HeadersRead(hostHeader)
    \/ \E hostHeader \in HostHeaders : HostHeaderSetLate(hostHeader)
    \/ \E n \in ReadSizes : ReaderRead(n)
    \/ NextProcessor

SpecProcessor == Init /\ [][NextProcessorSpec]_vars

\* ------------------------------------------------------------------------
\* Properties of the HTTP processor (checked under SpecProcessor)
\* ------------------------------------------------------------------------

\* C15 (no byte lost, duplicated or reordered on a public connection): over
\* the requests of one keep-alive connection the bytes delivered to the tenant
\* are at every moment the first bytes the client sent, in order; once the
\* connection has delivered its last segment and the reader of the current
\* request has ended, they are all the bytes the client sent, those of a
\* pipelined request that arrived in the segment of the request before included.
C15_NoByteLost ==
    (h # NoReader /\ h.input.kind = "stream") =>
        /\ Len(h.returned) <= Len(InputBytes(h.input))
        /\ h.returned = SubSeq(InputBytes(h.input), 1, Len(h.returned))
        /\ (h.err # "nil" /\ h.p.reader = << >>) => h.returned = InputBytes(h.input)

\* C19 (the Host/Origin rewrite does not depend on buffer and read sizes): for
\* a request on which SetHostHeader(v) was called before the first read, with
\* a parse buffer at least as large as the header block and any read sizes of
\* the caller, GetHost() returns v, and the bytes the body reader has
\* delivered when it ends are the request with v in place of the Host value
\* and of the public domain in Origin, every other byte unchanged.
C19_RewriteIndependent ==
    (/\ h # NoReader
     /\ h.input.kind = "request"
     /\ h.hostHeader # Nil
     /\ h.requests = 1
     /\ h.state = "reading") =>
        /\ GetHost(ParsedRequest(h.p)) = Ok(h.hostHeader)
        /\ h.err # "nil" =>
              h.returned = h.input.pre \o h.hostHeader \o h.input.mid
                           \o (IF h.input.dom = << >> THEN << >> ELSE h.hostHeader)
                           \o h.input.post

\* C20 (a response without Content-Length is streamed until the tenant
\* closes): for a response that is not chunked, has no Content-Length and a
\* status that permits a body, the reader of the response body ends with EOF
\* only, and has then delivered every byte the tenant sent, however the header
\* block and the body were split over the reads of the channel.
C20_StreamedUntilEOF ==
    (/\ h # NoReader
     /\ h.input.kind = "response"
     /\ SubSeq(h.input.pre, 10, 12) = <<"2", "0", "0">>
     /\ Index(h.input.pre, <<"C", "o", "n", "t", "e", "n", "t", "-", "L", "e", "n", "g", "t", "h", ":">>) = 0
     /\ h.state = "reading"
     /\ h.err # "nil") =>
        /\ h.err = "EOF"
        /\ h.returned = InputBytes(h.input)

C23_BindFailureKeepsProcess ==
    [][/\ proc' # "fatal"
       /\ \A s \in Sessions :
             (/\ gPc[s] \in {"listenerLock", "tcpLock"}
              /\ gPc'[s] = "idle"
              /\ ~fwdReply'[s].ok)
             => /\ fwdReply'[s].sent
                /\ proc' = proc]_vars

\* C24 (the rendezvous is signaled once): on every session the handler of the
\* session channel sends on the exec/forward rendezvous for the first exec
\* request and for no other request: at most one request was signaled, the
\* first exec request is the one that was signaled or whose send is under way,
\* and every later exec request and every request of another type was
\* answered false without a send.  Checked under SpecExec.
C24_SignaledOnce ==
    \A s \in Sessions :
        LET log == sessionRequests[s]
            execs == {i \in 1..Len(log) : log[i].type = "exec"}
            first(i) == i \in execs /\ \A j \in execs : i <= j
        IN  /\ Cardinality({i \in 1..Len(log) : log[i].signaled}) <= 1
            /\ \A i \in 1..Len(log) :
                  IF first(i)
                  THEN \/ log[i].signaled /\ log[i].reply = "true"
                       \/ scPc[s] = "send" /\ i = Len(log) /\ log[i].reply = "none"
                  ELSE log[i].reply = "false" /\ ~log[i].signaled
            /\ scPc[s] = "send" => (log # << >> /\ first(Len(log)))

\* Session s1 sent env, exec and exec: the first exec was signaled to the
\* forward handler, the other two requests were refused.
C24_SecondExecRefused ==
    sessionRequests["s1"] = <<[type |-> "env", errReply |-> "none", reply |-> "false", signaled |-> FALSE],
                              [type |-> "exec", errReply |-> "none", reply |-> "true", signaled |-> TRUE],
                              [type |-> "exec", errReply |-> "none", reply |-> "false", signaled |-> FALSE]>>

\* C25: a registry mutex is never held across a network operation.  No step
\* that leaves a task holding the tunnel table's mutex writes to that task's
\* session channel, and no step of the forwards mutex's critical sections
\* (remoteForward.go:178-223 and 228-267) binds or closes a listener or
\* writes to the session channel.
C25_NoNetworkUnderMutex ==
    [][\A s \in Sessions :
          /\ sshTunnelListenersLock' = <<"forward", s>> => fwdReply'[s].msg = fwdReply[s].msg
          /\ (gPc[s] \in {"listenerLock", "tcpLock"} /\ gPc'[s] # gPc[s])
             => /\ listener' = listener
                /\ fwdReply'[s].msg = ""]_vars

\* C26 (ReadHeadersIfNeeded waits for the end of the header block): the call
\* on the first processor of a connection succeeds, with the headers parsed,
\* exactly when CRLF CRLF ends within the first len(buf) bytes of the stream,
\* however the peer's bytes are split over the reads of the source.
C26_HeadersReadWhateverTheSplit ==
    [][(/\ h # NoReader
        /\ h.state = "new"
        /\ h.requests = 1
        /\ h' # NoReader
        /\ h'.state = "reading") =>
           LET delimiterIndex == Index(InputBytes(h.input), <<"\r", "\n", "\r", "\n">>)
               within == delimiterIndex > 0 /\ delimiterIndex + 3 <= Len(h.p.buf)
           IN  /\ within => (h'.p.lastError = "nil" /\ h'.p.parsedHeaders)
               /\ ~within => h'.p.lastError # "nil"]_vars

\* C27 (headers are parsed from this request's bytes only): whenever a
\* processor has parsed its headers, the header block ends at or before the
\* write cursor, and, when no header was rewritten, the block is a piece of
\* what the peer sent; also for the second processor of a connection, whose
\* pooled buffer still holds the bytes of the request before.
C27_ParsedFromOwnBytes ==
    (h # NoReader /\ h.p.parsedHeaders) =>
        /\ h.p.bodyStartsIndex <= h.p.bufWritePos
        /\ (h.hostHeader = Nil /\ h.late = Nil) =>
              Index(InputBytes(h.input), SubSeq(h.p.buf, 1, h.p.bodyStartsIndex)) > 0

\* C28 (one read of the source per Read): a call of httpProcessor.Read makes
\* at most one call of h.reader.Read: the first call, with nothing buffered,
\* makes one to fill the parse buffer; a call made while bytes of the buffer
\* are still to be copied makes none; a call made after the buffer was
\* drained makes exactly one.  The steps are ReadHeadersIfNeeded on a new
\* processor and the reads of the body reader that reach the processor, on a
\* processor whose header was not rewritten after the consumer began to read.
C28_OneReadPerCall ==
    [][(/\ h # NoReader
        /\ h' # NoReader
        /\ h.late = Nil
        /\ h.p.lastError = "nil"
        /\ \/ h.state = "new" /\ h'.state = "reading" /\ h'.hostHeader = Nil
           \/ /\ h.state = "reading"
              /\ h'.state = "reading"
              /\ h'.late = h.late
              /\ \/ h.p.headerBodyReader.kind = "self"
                 \/ h.p.headerBodyReader.kind \in {"limit", "chunked"} /\ h.p.headerBodyReader.N > 0) =>
           /\ h'.p.readerReads <= 1
           /\ h'.p.readerReads = IF h.p.bufferUsed THEN 1
                                 ELSE IF h.p.bufReadPos < h.p.bufWritePos THEN 0
                                 ELSE 1]_vars

\* a read made after the buffer was drained went to the source, once
C28_ReadAfterDrain ==
    /\ h # NoReader
    /\ h.state = "reading"
    /\ h.p.bufferUsed
    /\ h.p.readerReads = 1
    /\ h.p.totalBytes > h.p.bufWritePos
    /\ h.p.lastError = "nil"

\* C29 (SetHostHeader after delivery began changes nothing): a call of
\* SetHostHeader made when the consumer has taken bytes of the header block
\* leaves the buffer, its cursors, bodyStartsIndex and the limit of the body
\* reader as they were.
C29_LateRewriteChangesNothing ==
    [][(/\ h # NoReader
        /\ h' # NoReader
        /\ h.late = Nil
        /\ h'.late # Nil
        /\ h.p.bufReadPos > 0) =>
           /\ h'.p.buf = h.p.buf
           /\ h'.p.bufReadPos = h.p.bufReadPos
           /\ h'.p.bufWritePos = h.p.bufWritePos
           /\ h'.p.bodyStartsIndex = h.p.bodyStartsIndex
           /\ h'.p.headerBodyReader.N = h.p.headerBodyReader.N]_vars

\* C30 (the rewrite touches the value of the named header line only): after
\* SetHostHeader(v) on a new processor the bytes of the buffer are the bytes
\* that were read with, at most, the value of the Host line and the public
\* domain in the value of the Origin line replaced by v; the request line,
\* every other header line and the body bytes are as they were read.
C30_OnlyTheNamedLine ==
    (/\ h # NoReader
     /\ h.input.kind = "request"
     /\ h.state = "reading"
     /\ h.requests = 1
     /\ h.hostHeader # Nil
     /\ h.p.parsedHeaders
     /\ ~h.p.bufferUsed) =>
        LET in == h.input
        IN  \E host \in {in.host, h.hostHeader} :
                \E dom \in {in.dom} \cup (IF in.dom = << >> THEN {} ELSE {h.hostHeader}) :
                    LET n == h.p.totalBytes + (Len(host) - Len(in.host)) + (Len(dom) - Len(in.dom))
                    IN  /\ h.p.bufWritePos = n
                        /\ SubSeq(h.p.buf, 1, n) =
                               SubSeq(in.pre \o host \o in.mid \o dom \o in.post, 1, n)

\* ------------------------------------------------------------------------
\* One forwarded request of a public connection: the task that copies the
\* request to the forwarded channel, the task that copies the response back,
\* the public peer and the tenant (remoteForward.go:506-568)
\* ------------------------------------------------------------------------
\* The body is counted in parts: avail parts have arrived on the public
\* connection and are not read yet (the header block is the first), pending
\* parts the public peer has still to send.

\* httpProcessor.go:476-500 adjustBodyReader: the reader the request is copied from
BodyKinds == {"length", "chunked", "upgrade"}

\* httpProcessor.go:488-498: io.LimitReader and the chunked reader end when the
\* request has been read whole; the processor itself (an upgraded connection)
\* has no end
AtEnd(kind, avail, pending) == kind # "upgrade" /\ avail + pending = 0

\* remoteForward.go:483-510: the channel is open, the two tasks start
SpliceStarted(kind, pending) ==
    /\ splice.state = "none"
    /\ splice' = [state |-> "copying", kind |-> kind, avail |-> 1, pending |-> pending,
                  request |-> "read", response |-> "read", forwarded |-> 0,
                  peer |-> "open", tenant |-> "open", channel |-> "open", socket |-> "open",
                  remoteTCPConnectionClose |-> FALSE]
    /\ UNCHANGED <<proc, connState, mainPc, channelAlreadyHandled, channelLog, sessionHandlers,
                   scPc, requestHandled, execRequest, execRequestCompleted, gPc, fw,
                   reqPayload, connTunnelName, connReqPayload, connSshChannel,
                   sshTunnelListeners, sshTunnelListenersLock, forwards, listener, accPc,
                   fwdReply, httpPc, httpReq, httpResult, domainPath, httpConnection,
                   hadPreviousRequests, httpProcessor, remoteTCPConnectionClose, wg,
                   forwardedChannels, kaPc, missingReplies, kaRead, kaRequests, cp, h,
                   nameChecked, sessionRequests, acceptor>>

\* The public peer sends the next part of its request
PeerSends ==
    /\ splice.state \in {"copying", "waiting"}
    /\ splice.peer = "open"
    /\ splice.pending > 0
    /\ splice' = [splice EXCEPT !.pending = @ - 1, !.avail = @ + 1]
    /\ UNCHANGED <<proc, connState, mainPc, channelAlreadyHandled, channelLog, sessionHandlers,
                   scPc, requestHandled, execRequest, execRequestCompleted, gPc, fw,
                   reqPayload, connTunnelName, connReqPayload, connSshChannel,
                   sshTunnelListeners, sshTunnelListenersLock, forwards, listener, accPc,
                   fwdReply, httpPc, httpReq, httpResult, domainPath, httpConnection,
                   hadPreviousRequests, httpProcessor, remoteTCPConnectionClose, wg,
                   forwardedChannels, kaPc, missingReplies, kaRead, kaRequests, cp, h,
                   nameChecked, sessionRequests, acceptor>>

\* The public peer closes its connection
PeerCloses ==
    /\ splice.state \in {"copying", "waiting"}
    /\ splice.peer = "open"
    /\ splice' = [splice EXCEPT !.peer = "closed"]
    /\ UNCHANGED <<proc, connState, mainPc, channelAlreadyHandled, channelLog, sessionHandlers,
                   scPc, requestHandled, execRequest, execRequestCompleted, gPc, fw,
                   reqPayload, connTunnelName, connReqPayload, connSshChannel,
                   sshTunnelListeners, sshTunnelListenersLock, forwards, listener, accPc,
                   fwdReply, httpPc, httpReq, httpResult, domainPath, httpConnection,
                   hadPreviousRequests, httpProcessor, remoteTCPConnectionClose, wg,
                   forwardedChannels, kaPc, missingReplies, kaRead, kaRequests, cp, h,
                   nameChecked, sessionRequests, acceptor>>

\* The tenant closes its side of the forwarded channel, which the server has
\* not closed yet
TenantCloses ==
    /\ splice.state = "copying"
    /\ splice.tenant = "open"
    /\ splice.channel = "open"
    /\ splice' = [splice EXCEPT !.tenant = "closed"]
    /\ UNCHANGED <<proc, connState, mainPc, channelAlreadyHandled, channelLog, sessionHandlers,
                   scPc, requestHandled, execRequest, execRequestCompleted, gPc, fw,
                   reqPayload, connTunnelName, connReqPayload, connSshChannel,
                   sshTunnelListeners, sshTunnelListenersLock, forwards, listener, accPc,
                   fwdReply, httpPc, httpReq, httpResult, domainPath, httpConnection,
                   hadPreviousRequests, httpProcessor, remoteTCPConnectionClose, wg,
                   forwardedChannels, kaPc, missingReplies, kaRead, kaRequests, cp, h,
                   nameChecked, sessionRequests, acceptor>>

\* remoteForward.go:521, io.CopyBuffer: src.Read on the body reader.  It
\* returns io.EOF at the end of the request, a part that has arrived, or the
\* error of a connection its peer has closed; else it blocks.
RequestRead ==
    /\ splice.state = "copying"
    /\ splice.request = "read"
    /\ IF AtEnd(splice.kind, splice.avail, splice.pending)
       THEN splice' = [splice EXCEPT !.request = "done"]
       ELSE IF splice.avail > 0
       THEN splice' = [splice EXCEPT !.request = "write", !.avail = @ - 1]
       ELSE /\ splice.peer = "closed"
            /\ splice' = [splice EXCEPT !.request = "done"]
    /\ UNCHANGED <<proc, connState, mainPc, channelAlreadyHandled, channelLog, sessionHandlers,
                   scPc, requestHandled, execRequest, execRequestCompleted, gPc, fw,
                   reqPayload, connTunnelName, connReqPayload, connSshChannel,
                   sshTunnelListeners, sshTunnelListenersLock, forwards, listener, accPc,
                   fwdReply, httpPc, httpReq, httpResult, domainPath, httpConnection,
                   hadPreviousRequests, httpProcessor, remoteTCPConnectionClose, wg,
                   forwardedChannels, kaPc, missingReplies, kaRead, kaRequests, cp, h,
                   nameChecked, sessionRequests, acceptor>>

\* remoteForward.go:521, io.CopyBuffer: dst.Write on the channel.  It fails on
\* a channel the server has closed, and may fail once the tenant has closed.
RequestWrite ==
    /\ splice.state = "copying"
    /\ splice.request = "write"
    /\ \E ok \in (IF splice.channel = "closed" THEN {FALSE}
                  ELSE IF splice.tenant = "closed" THEN {TRUE, FALSE} ELSE {TRUE}) :
           splice' = IF ok THEN [splice EXCEPT !.request = "read", !.forwarded = @ + 1]
                     ELSE [splice EXCEPT !.request = "done"]
    /\ UNCHANGED <<proc, connState, mainPc, channelAlreadyHandled, channelLog, sessionHandlers,
                   scPc, requestHandled, execRequest, execRequestCompleted, gPc, fw,
                   reqPayload, connTunnelName, connReqPayload, connSshChannel,
                   sshTunnelListeners, sshTunnelListenersLock, forwards, listener, accPc,
                   fwdReply, httpPc, httpReq, httpResult, domainPath, httpConnection,
                   hadPreviousRequests, httpProcessor, remoteTCPConnectionClose, wg,
                   forwardedChannels, kaPc, missingReplies, kaRead, kaRequests, cp, h,
                   nameChecked, sessionRequests, acceptor>>

\* remoteForward.go:540-552, eofReader.go:11-17: the read of the channel returns
\* io.EOF once the tenant has closed; the task notes it and closes the channel
ResponseRead ==
    /\ splice.state = "copying"
    /\ splice.response = "read"
    /\ splice.tenant = "closed"
    /\ splice' = [splice EXCEPT !.response = "done", !.channel = "closed",
                                !.remoteTCPConnectionClose = TRUE]
    /\ UNCHANGED <<proc, connState, mainPc, channelAlreadyHandled, channelLog, sessionHandlers,
                   scPc, requestHandled, execRequest, execRequestCompleted, gPc, fw,
                   reqPayload, connTunnelName, connReqPayload, connSshChannel,
                   sshTunnelListeners, sshTunnelListenersLock, forwards, listener, accPc,
                   fwdReply, httpPc, httpReq, httpResult, domainPath, httpConnection,
                   hadPreviousRequests, httpProcessor, remoteTCPConnectionClose, wg,
                   forwardedChannels, kaPc, missingReplies, kaRead, kaRequests, cp, h,
                   nameChecked, sessionRequests, acceptor>>

\* remoteForward.go:540-552: the response ends at its own length, or the write
\* to the public connection fails, while the tenant keeps the channel open
ResponseEnded ==
    /\ splice.state = "copying"
    /\ splice.response = "read"
    /\ splice.tenant = "open"
    /\ splice' = [splice EXCEPT !.response = "done", !.channel = "closed"]
    /\ UNCHANGED <<proc, connState, mainPc, channelAlreadyHandled, channelLog, sessionHandlers,
                   scPc, requestHandled, execRequest, execRequestCompleted, gPc, fw,
                   reqPayload, connTunnelName, connReqPayload, connSshChannel,
                   sshTunnelListeners, sshTunnelListenersLock, forwards, listener, accPc,
                   fwdReply, httpPc, httpReq, httpResult, domainPath, httpConnection,
                   hadPreviousRequests, httpProcessor, remoteTCPConnectionClose, wg,
                   forwardedChannels, kaPc, missingReplies, kaRead, kaRequests, cp, h,
                   nameChecked, sessionRequests, acceptor>>

\* remoteForward.go:558-568: wg.Wait() returns; return (and the deferred
\* httpConnection.Close()) when the tenant had closed, else the next request
SpliceEnded ==
    /\ splice.state = "copying"
    /\ splice.request = "done"
    /\ splice.response = "done"
    /\ splice' = IF NextRequestAwaited(splice.remoteTCPConnectionClose)
                 THEN [splice EXCEPT !.state = "waiting"]
                 ELSE [splice EXCEPT !.state = "returned", !.socket = "closed"]
    /\ UNCHANGED <<proc, connState, mainPc, channelAlreadyHandled, channelLog, sessionHandlers,
                   scPc, requestHandled, execRequest, execRequestCompleted, gPc, fw,
                   reqPayload, connTunnelName, connReqPayload, connSshChannel,
                   sshTunnelListeners, sshTunnelListenersLock, forwards, listener, accPc,
                   fwdReply, httpPc, httpReq, httpResult, domainPath, httpConnection,
                   hadPreviousRequests, httpProcessor, remoteTCPConnectionClose, wg,
                   forwardedChannels, kaPc, missingReplies, kaRead, kaRequests, cp, h,
                   nameChecked, sessionRequests, acceptor>>

\* remoteForward.go:364-431: the headers of the next request are read; the
\* handler returns when the peer has closed or when what is left of the last
\* request arrives in place of a request
NextRequestRead ==
    /\ splice.state = "waiting"
    /\ splice.avail > 0 \/ splice.peer = "closed"
    /\ splice' = [splice EXCEPT !.state = "returned", !.socket = "closed"]
    /\ UNCHANGED <<proc, connState, mainPc, channelAlreadyHandled, channelLog, sessionHandlers,
                   scPc, requestHandled, execRequest, execRequestCompleted, gPc, fw,
                   reqPayload, connTunnelName, connReqPayload, connSshChannel,
                   sshTunnelListeners, sshTunnelListenersLock, forwards, listener, accPc,
                   fwdReply, httpPc, httpReq, httpResult, domainPath, httpConnection,
                   hadPreviousRequests, httpProcessor, remoteTCPConnectionClose, wg,
                   forwardedChannels, kaPc, missingReplies, kaRead, kaRequests, cp, h,
                   nameChecked, sessionRequests, acceptor>>

\* Parts of a request the public peer has still to send when the channel opens
MaxPending == 2

NextSplice ==
    \/ \E kind \in BodyKinds, pending \in 0..MaxPending : SpliceStarted(kind, pending)
    \/ PeerSends
    \/ PeerCloses
    \/ TenantCloses
    \/ RequestRead
    \/ RequestWrite
    \/ ResponseRead
    \/ ResponseEnded
    \/ SpliceEnded
    \/ NextRequestRead

\* The tasks of the handler are goroutines that run when they can; nothing
\* makes the public peer or the tenant act
SpecSplice ==
    /\ Init /\ [][NextSplice]_vars
    /\ WF_vars(RequestRead) /\ WF_vars(RequestWrite) /\ WF_vars(ResponseRead)
    /\ WF_vars(SpliceEnded) /\ WF_vars(NextRequestRead)

\* ------------------------------------------------------------------------
\* The goroutine that accepts SSH connections (main.go:151-181)
\* ------------------------------------------------------------------------
\* main.go:161-169: the delay before the next Accept after a temporary error,
\* in milliseconds
NextDelay(tempDelay) ==
    IF tempDelay = 0 THEN 5
    ELSE IF tempDelay * 2 > 1000 THEN 1000
    ELSE tempDelay * 2

\* main.go:153-176: sshLocalListener.Accept() returns an error.  When the
\* context is cancelled the goroutine returns; after a temporary error it
\* sleeps and accepts again; after any other error the break of line 173
\* leaves the select, not the loop, and line 179 starts
\* handleIncomingSSHConn with the nil connection: its type assertion
\* nConn.(*net.TCPConn) (line 222) panics.
AcceptFails(temporary) ==
    /\ acceptor.state = "accept"
    /\ proc \in {"running", "shutdown"}
    /\ IF proc = "shutdown"
       THEN /\ acceptor' = [acceptor EXCEPT !.state = "returned"]
            /\ UNCHANGED proc
       ELSE IF temporary
       THEN /\ acceptor' = [acceptor EXCEPT !.tempDelay = NextDelay(@)]
            /\ UNCHANGED proc
       ELSE /\ acceptor' = [acceptor EXCEPT !.nilConn = TRUE]
            /\ proc' = "panic"
    /\ UNCHANGED <<connState, mainPc, channelAlreadyHandled, channelLog, sessionHandlers, scPc,
                   requestHandled, execRequest, execRequestCompleted, gPc, fw, reqPayload,
                   connTunnelName, connReqPayload, connSshChannel, sshTunnelListeners,
                   sshTunnelListenersLock, forwards, listener, accPc, fwdReply, httpPc,
                   httpReq, httpResult, domainPath, httpConnection, hadPreviousRequests,
                   httpProcessor, remoteTCPConnectionClose, wg, forwardedChannels, kaPc,
                   missingReplies, kaRead, kaRequests, cp, h, nameChecked, sessionRequests,
                   splice>>

\* main.go:153, 180: Accept returns a connection and its handler starts
Accepts(s) == acceptor.state = "accept" /\ Connect(s)

\* Clients that connect and leave while Accept fails now and then
NextAccept ==
    \/ \E temporary \in BOOLEAN : AcceptFails(temporary)
    \/ \E s \in Sessions : Accepts(s)
    \/ \E s \in Sessions : Disconnect(s)
    \/ \E s \in Sessions : GlobalLoopEnds(s)
    \/ \E s \in Sessions : Teardown(s)
    \/ \E s \in Sessions : TeardownClose(s)
    \/ Shutdown

SpecAccept == Init /\ [][NextAccept]_vars

\* ------------------------------------------------------------------------
\* Two sessions of one client that ask for HTTP tunnels whose names and ports
\* differ
\* ------------------------------------------------------------------------
Name0ABC == <<"0", "a", "b", "c">>
KeyCommands == [id : {"a"}, tunnelname : {NameABC, Name0ABC}, type : {"http"}]

NextKeys ==
    \/ \E s \in HttpClients : Handlers(s)
    \/ \E s \in HttpClients : HttpAcquire(s)
    \/ \E s \in HttpClients : HttpInsert(s)
    \/ \E s \in HttpClients : HttpListener(s)
    \/ \E s \in HttpClients : channelLog[s] = << >> /\ NewChannel(s, "session")
    \/ \E s \in HttpClients, c \in KeyCommands : ExecRequest(s, c)
    \/ \E s \in HttpClients, p \in HttpPayloads : ForwardRequest(s, p)

SpecKeys == Init /\ [][NextKeys]_vars

\* ------------------------------------------------------------------------
\* Properties settled last
\* ------------------------------------------------------------------------

\* C31 (chunked reads are resumable): for a source that delivers given bytes
\* in given segments, the bytes a caller has got when the reader ends are the
\* same whatever the lengths of the caller's buffers: they are the bytes
\* returned to a caller that reads with buffers of BufioSize bytes, and until
\* then a prefix of them.
C31_SameForEveryBufferSize ==
    cp # NoReader =>
        /\ Len(cp.returned) <= Len(cp.whole)
        /\ cp.returned = SubSeq(cp.whole, 1, Len(cp.returned))
        /\ cp.err # "nil" => cp.returned = cp.whole

\* C32 (no send on a closed rendezvous): in every interleaving of exec,
\* tcpip-forward and connection teardown, the process never panics: the
\* teardown never closes execRequestCompleted while the session-channel
\* handler is sending on it, and the handler never sends after the close.
C32_NoSendOnClosed == proc # "panic"

\* Replies sent so far to a request of the session channel: the one of
\* main.go:375 and the one of main.go:384 or 387
Replies(e) == (IF e.errReply = "none" THEN 0 ELSE 1) + (IF e.reply = "none" THEN 0 ELSE 1)

\* C33 (one reply per request of the session channel): no request is replied
\* to twice; a request has no reply only while the handler is sending it to
\* the rendezvous; an exec request with a malformed payload is answered false
\* and never true; every request after the first exec is answered false.
C33_OneReplyEach ==
    \A s \in Sessions :
        \A i \in 1..Len(sessionRequests[s]) :
            LET e == sessionRequests[s][i]
            IN  /\ Replies(e) <= 1
                /\ Replies(e) = 0 => (scPc[s] = "send" /\ i = Len(sessionRequests[s]))
                /\ e.errReply = "false" => e.reply # "true"
                /\ (\E j \in 1..(i - 1) : sessionRequests[s][j].type = "exec") => e.reply = "false"

\* C34 (a cancel touches the requesting session's forwards only): a TCP
\* listener closed by the cancel-tcpip-forward handler of a session is the
\* listener of an entry that session registered.
C34_CancelOwnForwardsOnly ==
    \A s \in Sessions, t \in Sessions :
        (listener[t].closer = <<"cancel", s>> /\ ~listener[t].http) => t = s

\* C35 (every exit of the forward handler unlocks): a forward handler that
\* has returned, with success or with any failure, does not hold the tunnel
\* table's mutex.
C35_ReturnedHandlerHoldsNoMutex ==
    \A s \in Sessions :
        gPc[s] \in {"idle", "done"} => sshTunnelListenersLock # <<"forward", s>>

\* C36 (the tenant's close ends the public connection's handler): once the
\* tenant has closed its side of the forwarded channel the handler returns
\* and the public socket is closed, whether or not the public peer sends or
\* closes, for the three kinds of body reader.  Checked under SpecSplice.
C36_TenantCloseEndsHandler ==
    (splice.state = "copying" /\ splice.tenant = "closed") ~> (splice.socket = "closed")

\* C37 (the limit of the body reader covers the header block): when the
\* headers of a request are parsed and GetContentLength reports a valid
\* length, the N of the io.LimitReader the request is read through is at
\* least bodyStartsIndex before anything is read, so that the header block is
\* forwarded whole.
C37_LimitCoversHeaders ==
    (/\ h # NoReader
     /\ h.state = "reading"
     /\ h.requests = 1
     /\ h.returned = << >>
     /\ h.p.parsedHeaders
     /\ h.p.request
     /\ h.p.headerBodyReader.kind = "limit"
     /\ GetContentLength(h.p).ok)
    => h.p.headerBodyReader.N >= h.p.bodyStartsIndex

\* C38 (the chunked reader's terminal state is absorbing): once Read has
\* returned io.EOF or another error, every later Read returns no byte and the
\* same error, and takes nothing from the bufio.Reader or from its source.
C38_TerminalStateAbsorbing ==
    [][(cp # NoReader /\ cp.err # "nil")
       => /\ cp'.err = cp.err
          /\ cp'.returned = cp.returned
          /\ cp'.r = cp.r
          /\ cp' # cp => cp'.outputTotalBytesWritten = 0]_vars

\* A caller has read a truncated payload to its error with buffers of 32
\* bytes and has then called Read again with a buffer of 3 bytes.
C38_ReadAgainAfterError ==
    /\ cp # NoReader
    /\ cp.again
    /\ cp.err = "ErrUnexpectedEOF"
    /\ cp.outputSlice = 3
    /\ cp.returned # << >>

\* C39 (a handler starts for an accepted connection only): after an Accept
\* that returned an error the acceptor sleeps and retries or stops; it never
\* starts handleIncomingSSHConn with a nil connection.
C39_NoHandlerForNilConn == ~acceptor.nilConn

\* main.go:245, remoteForward.go:120, 159: the key of a session's HTTP tunnel
\* in the tunnel table
CacheKey(s) ==
    JoinHostPort(reqPayload[s].BindAddr, Itoa(reqPayload[s].BindPort)) \o connTunnelName[s]

\* C40 (the keys of the HTTP tunnel table are injective): two sessions whose
\* HTTP tunnels differ in bind address, bind port or tunnel name have
\* different keys in the tunnel table.
C40_KeysInjective ==
    \A s \in Sessions, t \in Sessions :
        (/\ connReqPayload[s] /\ connTunnelName[s] # Nil
         /\ connReqPayload[t] /\ connTunnelName[t] # Nil
         /\ <<reqPayload[s], connTunnelName[s]>> # <<reqPayload[t], connTunnelName[t]>>)
        => CacheKey(s) # CacheKey(t)

====
